---------------------------- MODULE Spec2Model ----------------------------
(***************************************************************************)
(* A model of adsb_gui.py: the trace parser (extract_hits), the metadata   *)
(* reconciler (the merge_* functions, enrich_meta_from_hits and            *)
(* apply_type_mapping) and the worker thread that drives them              *)
(* (Worker.run).                                                           *)
(*                                                                         *)
(* Python values are tagged records, so that values of different Python    *)
(* types can be compared: None, bool, int, float, str, list and dict.      *)
(* A dict is a TLA+ function from its keys (strings) to values.            *)
(***************************************************************************)
EXTENDS Integers, Sequences, FiniteSets, TLC

VARIABLES
    blob,          \* parser harness: the payload handed to extract_hits
    segments,      \* parser harness: what extract_hits returned
    returned,      \* parser harness: TRUE once extract_hits has returned
    meta,          \* reconciler harness: the AircraftMeta being merged into
    calls,         \* reconciler harness: the merges called so far, with their source
    query,         \* worker: what the collaborators answer, and the options
    pc,            \* worker: position of Worker.run
    meta_obj,      \* worker: Worker.run's meta_obj
    all_segments,  \* worker: Worker.run's all_segments
    day,           \* worker: index of the next day of daterange(start, end)
    stop_flag,     \* worker: Worker._stop
    emitted,       \* worker: the terminal signals emitted so far, in order
    written,       \* worker: the export files written, each with what it was built from
    invoked,       \* worker: the exporters called so far, in order
    cards,         \* worker: how many times card_update has been emitted
    called,        \* function harness: the function called, its arguments, its result
    ACDB_CACHE,    \* process: the global _ACDB_CACHE
    disk,          \* process: the files of each cache directory of the database
    loads,         \* process: the calls of load_adsbx_acdb so far
    worker,        \* window: MainWindow.worker, 0 for None, else the Worker's number
    threads,       \* window: the Workers whose isRunning() is true
    requests,      \* window: how many times run_query has been called
    gui_log,       \* window: the lines its handlers appended since log.clear()
    backlog,       \* window: the signals of earlier Workers not yet delivered
    delivered,     \* window: how many signals of its Worker have been delivered
    reading,       \* window: the statement on_card_update is at, 0 outside it
    card           \* window: the texts of the card's labels

vars == <<blob, segments, returned, meta, calls,
          query, pc, meta_obj, all_segments, day, stop_flag, emitted, written,
          invoked, cards, called, ACDB_CACHE, disk, loads,
          worker, threads, requests, gui_log, backlog, delivered, reading, card>>

parser_vars == <<blob, segments, returned>>
harness_vars == <<meta, calls>>
worker_vars == <<query, pc, meta_obj, all_segments, day, stop_flag, emitted,
                 written, invoked, cards>>
call_vars == <<called>>
acdb_vars == <<ACDB_CACHE, disk, loads>>
gui_vars == <<worker, threads, requests, gui_log, backlog, delivered, reading, card>>

---------------------------------------------------------------------------
(* Python values *)

None == [k |-> "none"]
BoolV(b) == [k |-> "bool", n |-> IF b THEN 1 ELSE 0]
IntV(n) == [k |-> "int", n |-> n]
FloatV(n) == [k |-> "float", n |-> n]
\* The float n + 0.5, of a non-negative n
HalfV(n) == [k |-> "float", n |-> n, half |-> TRUE]
StrV(s) == [k |-> "str", s |-> s]
ListV(items) == [k |-> "list", items |-> items]
DictV(d) == [k |-> "dict", d |-> d]

EmptyDict == [key \in {} |-> None]

\* isinstance(v, (int, float)): a Python bool is an int.
is_int_or_float(v) == v.k \in {"int", "float", "bool"}

\* isinstance(v, int)
is_int(v) == v.k \in {"int", "bool"}

is_str(v) == v.k = "str"
is_list(v) == v.k = "list"
is_dict(v) == v.k = "dict"

\* Python's truth value of v.
truthy(v) ==
    CASE v.k = "none" -> FALSE
      [] v.k \in {"bool", "int", "float"} -> v.n # 0 \/ "half" \in DOMAIN v
      [] v.k = "str" -> v.s # ""
      [] v.k = "list" -> v.items # <<>>
      [] v.k = "dict" -> DOMAIN v.d # {}

\* a or b
py_or(a, b) == IF truthy(a) THEN a ELSE b

\* d.get(key) of a dict value
dict_get(d, key) == IF key \in DOMAIN d.d THEN d.d[key] ELSE None

\* a + b of two numbers: int + int is an int, anything with a float a float.
py_add(a, b) ==
    IF "half" \in DOMAIN a /\ "half" \in DOMAIN b THEN FloatV(a.n + b.n + 1)
    ELSE IF "half" \in DOMAIN a \/ "half" \in DOMAIN b THEN HalfV(a.n + b.n)
    ELSE IF a.k = "float" \/ b.k = "float" THEN FloatV(a.n + b.n)
    ELSE IntV(a.n + b.n)

\* n & 2 of a non-negative int
bit2(n) == (n \div 2) % 2 = 1

---------------------------------------------------------------------------
(* extract_hits *)

\* dt.datetime.utcfromtimestamp(ts).isoformat() + "Z": the text of ts.
time_iso_of(ts) ==
    IF is_int_or_float(ts) THEN [k |-> "str", s |-> "iso", at |-> ts.n] ELSE None

\* row[i] if len(row) >= i + 1 else None
row_elem(items, i) == IF Len(items) >= i + 1 THEN items[i + 1] ELSE None

\* Mutant of positional_ts: a missing base timestamp counts as 0.
positional_ts_offset_only(base_ts, dt_offset) ==
    IF is_int_or_float(dt_offset)
    THEN IF is_int_or_float(base_ts) THEN py_add(base_ts, dt_offset) ELSE dt_offset
    ELSE None

\* ts of a positional record: base_ts + dt_offset when both are numbers.
positional_ts(base_ts, dt_offset) ==
    IF is_int_or_float(base_ts) /\ is_int_or_float(dt_offset)
    THEN py_add(base_ts, dt_offset)
    ELSE None

\* The hit dict of a positional record [dt, lat, lon, alt, gs, track, flags, vrt, ac_data].
positional_hit(items, base_ts) ==
    LET ts == positional_ts(base_ts, items[1])
        ac_data == IF Len(items) >= 9 /\ is_dict(items[9]) THEN items[9] ELSE None
        hit == [timestamp |-> ts,
                time_iso  |-> time_iso_of(ts),
                lat       |-> items[2],
                lon       |-> items[3],
                alt_ft    |-> row_elem(items, 3),
                gs_knots  |-> row_elem(items, 4),
                track_deg |-> row_elem(items, 5),
                flags     |-> row_elem(items, 6),
                vrt_fpm   |-> row_elem(items, 7)]
    IN  IF ac_data # None THEN ("ac_data" :> ac_data) @@ hit ELSE hit

\* Mutant of new_leg: flags == 2 in place of flags & 2.
new_leg_equals_2(flags) == is_int(flags) /\ flags.n = 2

\* New leg detection on a positional record: isinstance(flags, int) and (flags & 2)
new_leg(flags) == is_int(flags) /\ bit2(flags.n)

\* lon of a keyed record: row.get("lon") or row.get("lng")
keyed_lon(row) == py_or(dict_get(row, "lon"), dict_get(row, "lng"))

\* ts of a keyed record: row.get("time") or row.get("ts") or row.get("timestamp")
keyed_ts(row) ==
    py_or(py_or(dict_get(row, "time"), dict_get(row, "ts")), dict_get(row, "timestamp"))

ExtraKeys ==
    {"alt", "alt_ft", "gs", "gs_knots", "track", "track_deg",
     "flags", "vrt", "vrt_fpm", "ac_data"}

\* The hit dict of a keyed record.
keyed_hit(row) ==
    LET ts == keyed_ts(row)
        extras == [key \in ExtraKeys \cap DOMAIN row.d |-> row.d[key]]
    IN  extras @@ [timestamp |-> ts,
                   time_iso  |-> time_iso_of(ts),
                   lat       |-> dict_get(row, "lat"),
                   lon       |-> keyed_lon(row)]

\* Mutant of valid_latlon: only lat is looked at.
valid_latlon_lat_only(lat, lon) == is_int_or_float(lat)

\* The record passes the filter of line 257: lat and lon are both numbers.
valid_latlon(lat, lon) == is_int_or_float(lat) /\ is_int_or_float(lon)

\* Mutant of flush_segment: the open segment is closed even when empty.
flush_segment_even_empty(st) ==
    [segments |-> Append(st.segments, st.current), current |-> <<>>]

\* flush_segment(): close the open segment if it has a hit.
flush_segment(st) ==
    IF st.current # <<>>
    THEN [segments |-> Append(st.segments, st.current), current |-> <<>>]
    ELSE st

\* Mutant of append_hit: the hit is put in front.
append_hit_in_front(st, hit) == [st EXCEPT !.current = <<hit>> \o @]

\* current.append(hit)
append_hit(st, hit) == [st EXCEPT !.current = Append(@, hit)]

\* Mutant of extract_row: the new-leg flush comes after the lat/lon filter.
extract_row_filter_first(st, row, base_ts) ==
    IF is_list(row) /\ Len(row.items) >= 3
    THEN LET hit == positional_hit(row.items, base_ts)
         IN  IF valid_latlon(hit.lat, hit.lon)
             THEN append_hit(IF new_leg(hit.flags) THEN flush_segment(st) ELSE st, hit)
             ELSE st
    ELSE IF is_dict(row)
    THEN LET hit == keyed_hit(row)
         IN  IF valid_latlon(hit.lat, hit.lon) THEN append_hit(st, hit) ELSE st
    ELSE st

\* One turn of the loop "for row in seq".
extract_row(st, row, base_ts) ==
    IF is_list(row) /\ Len(row.items) >= 3
    THEN LET hit == positional_hit(row.items, base_ts)
             st1 == IF new_leg(hit.flags) THEN flush_segment(st) ELSE st
         IN  IF valid_latlon(hit.lat, hit.lon) THEN append_hit(st1, hit) ELSE st1
    ELSE IF is_dict(row)
    THEN LET hit == keyed_hit(row)
         IN  IF valid_latlon(hit.lat, hit.lon) THEN append_hit(st, hit) ELSE st
    ELSE st

RECURSIVE extract_loop(_, _, _, _)
extract_loop(st, seq, i, base_ts) ==
    IF i > Len(seq)
    THEN st
    ELSE extract_loop(extract_row(st, seq[i], base_ts), seq, i + 1, base_ts)

\* base_ts of the payload: blob.get("timestamp") of a dict, else None.
blob_base_ts(b) == IF is_dict(b) THEN dict_get(b, "timestamp") ELSE None

\* seq of the payload: the first truthy of trace, positions, trail; or the payload.
blob_seq(b) ==
    IF is_dict(b)
    THEN py_or(py_or(dict_get(b, "trace"), dict_get(b, "positions")), dict_get(b, "trail"))
    ELSE b

\* extract_hits(blob): the list of segments, each a list of hits.
extract_hits(b) ==
    LET seq == blob_seq(b)
    IN  IF ~is_list(seq)
        THEN <<>>
        ELSE flush_segment(
                 extract_loop([segments |-> <<>>, current |-> <<>>],
                              seq.items, 1, blob_base_ts(b))).segments

---------------------------------------------------------------------------
(* The parser harness: extract_hits applied to one payload. *)

MaxRows == 3

SeqsUpTo(S, n) == UNION {[1..m -> S] : m \in 0..n}

\* A positional record [dt, lat, lon, alt, gs, track, flags].
PosRow(dt, lat, lon, flags) ==
    ListV(<<dt, lat, lon, IntV(300), None, None, flags>>)

\* Some identity attributes embedded in a record.
SomeAcData == DictV([r |-> StrV("N1"), flight |-> StrV("CS1")])

PositionalRows ==
    {PosRow(IntV(5), ll[1], ll[2], fl) :
        ll \in {<<FloatV(1), FloatV(2)>>, <<IntV(0), IntV(0)>>,
                <<None, FloatV(2)>>, <<FloatV(1), StrV("x")>>},
        fl \in {IntV(1), IntV(2)}}
    \cup {PosRow(StrV("x"), FloatV(1), FloatV(2), IntV(3)),
          PosRow(None, FloatV(1), BoolV(TRUE), None),
          ListV(<<IntV(5), FloatV(1)>>),
          ListV(<<FloatV(6), FloatV(1), FloatV(2)>>),
          ListV(<<IntV(5), FloatV(1), FloatV(2), None, None, None, IntV(0), None,
                  SomeAcData>>)}

KeyedRows ==
    {DictV(d) : d \in
        {[lat |-> FloatV(1), lon |-> FloatV(2)],
         [lat |-> FloatV(1), lon |-> IntV(0)],
         [lat |-> FloatV(1), lng |-> FloatV(2)],
         [lat |-> FloatV(1), lon |-> IntV(0), lng |-> FloatV(3)],
         [lat |-> FloatV(1), lon |-> None, lng |-> FloatV(2)],
         [lat |-> IntV(0), lon |-> FloatV(2), time |-> IntV(7)],
         [lat |-> StrV("x"), lon |-> FloatV(2)],
         [lat |-> FloatV(1)],
         [lat |-> FloatV(1), lon |-> FloatV(2), flags |-> IntV(2), ts |-> IntV(8)]}}

OtherRows == {StrV("junk")}

AllRows == PositionalRows \cup KeyedRows \cup OtherRows

\* The records tried under the payload shapes other than the usual one.
FewRows ==
    {PosRow(IntV(5), FloatV(1), FloatV(2), IntV(1)),
     PosRow(IntV(5), FloatV(1), FloatV(2), IntV(2)),
     PosRow(StrV("x"), FloatV(1), FloatV(2), IntV(3)),
     DictV([lat |-> FloatV(1), lon |-> FloatV(2)])}

\* Payloads whose top level is neither an array nor a mapping holding one.
MalformedBlobs ==
    {None, StrV("junk"), IntV(7), DictV(EmptyDict),
     DictV([timestamp |-> IntV(100)]),
     DictV([timestamp |-> IntV(100), trace |-> StrV("junk")]),
     DictV([trace |-> IntV(0), positions |-> DictV(EmptyDict)])}

Blobs ==
    {DictV([timestamp |-> IntV(100), trace |-> ListV(rows)]) :
        rows \in SeqsUpTo(AllRows, MaxRows)}
    \cup {DictV([timestamp |-> StrV("t"), positions |-> ListV(rows)]) :
        rows \in SeqsUpTo(FewRows, MaxRows)}
    \cup {DictV([timestamp |-> BoolV(TRUE), trace |-> ListV(<<>>), trail |-> ListV(rows)]) :
        rows \in SeqsUpTo(FewRows, MaxRows)}
    \cup {ListV(rows) : rows \in SeqsUpTo(FewRows, MaxRows)}
    \cup MalformedBlobs

\* No function has been called in the function harness.
NoCall == [fn |-> "none"]

\* The worker and the reconciler harness stand still in the parser harness.
IdleWorker ==
    /\ query = None
    /\ pc = "idle"
    /\ meta_obj = None
    /\ all_segments = <<>>
    /\ day = 0
    /\ stop_flag = FALSE
    /\ emitted = <<>>
    /\ written = {}
    /\ invoked = <<>>
    /\ cards = 0

IdleHarness ==
    /\ meta = None
    /\ calls = <<>>
    /\ called = NoCall

IdleParser ==
    /\ blob = None
    /\ segments = <<>>
    /\ returned = FALSE

\* The cache directories load_adsbx_acdb is given: one per output folder.
CacheRoots == {"out1/acdb_cache", "out2/acdb_cache"}

\* A file that does not exist.
NoFile == [k |-> "no file"]

\* A cache directory without the files of the database.
NoFiles == [json |-> NoFile, gz |-> NoFile]

\* load_adsbx_acdb has not been called and no cache directory has a file.
IdleAcdb ==
    /\ ACDB_CACHE = None
    /\ disk = [root \in CacheRoots |-> NoFiles]
    /\ loads = <<>>

\* The labels of the card as MainWindow.__init__ leaves them.
BlankCard ==
    [type |-> "-", type_name |-> "-", hex |-> "-", registration |-> "-",
     owner |-> "-", flags |-> "-", callsigns |-> "-", photo_url |-> None]

\* The window has no Worker and handles no signal.
IdleWindow ==
    /\ worker = 0
    /\ threads = {}
    /\ requests = 0
    /\ gui_log = <<>>
    /\ backlog = <<>>
    /\ delivered = 0
    /\ reading = 0
    /\ card = BlankCard

InitParse ==
    /\ blob \in Blobs
    /\ segments = <<>>
    /\ returned = FALSE
    /\ IdleHarness
    /\ IdleWorker
    /\ IdleAcdb
    /\ IdleWindow

\* The call extract_hits(blob).
CallExtractHits ==
    /\ ~returned
    /\ blob # None
    /\ segments' = extract_hits(blob)
    /\ returned' = TRUE
    /\ UNCHANGED <<blob, harness_vars, worker_vars, call_vars, acdb_vars, gui_vars>>

NextParse == CallExtractHits

SpecParse == InitParse /\ [][NextParse]_vars

---------------------------------------------------------------------------
(* Properties of extract_hits *)

RECURSIVE Flatten(_)
\* The hits of all segments, in segment order.
Flatten(segs) == IF segs = <<>> THEN <<>> ELSE Head(segs) \o Flatten(Tail(segs))

RECURSIVE SegStarts(_, _)
\* The positions, in Flatten(segs), of the first hit of each segment of segs,
\* the first of which lies at offset + 1.
SegStarts(segs, offset) ==
    IF segs = <<>>
    THEN {}
    ELSE {offset + 1} \cup SegStarts(Tail(segs), offset + Len(Head(segs)))

\* The records of the payload, as the parser reads them.
Rows(b) == IF is_list(blob_seq(b)) THEN blob_seq(b).items ELSE <<>>

IsNumeric(v) == v.k \in {"int", "float", "bool"}

IsPositional(row) == row.k = "list" /\ Len(row.items) >= 3

IsKeyed(row) == row.k = "dict"

\* The positional record carries flags with bit value 2 set.
Marked(row) ==
    /\ IsPositional(row)
    /\ Len(row.items) >= 7
    /\ row.items[7].k = "int"
    /\ (row.items[7].n \div 2) % 2 = 1

\* The positional record has numeric latitude and longitude.
PosValid(row) == IsNumeric(row.items[2]) /\ IsNumeric(row.items[3])

AllPositionalValid(rows) ==
    \A i \in 1..Len(rows) : IsPositional(rows[i]) /\ PosValid(rows[i])

NumMarked(rows) == Cardinality({i \in 1..Len(rows) : Marked(rows[i])})

\* C2 as stated, for a payload that has a record: a payload of valid
\* positional records, N of them marked with flags bit 2, yields exactly N + 1
\* segments, and each marked record is the first hit of a segment.
C2_SegmentsAreMarkedPlusOne ==
    (returned /\ Rows(blob) # <<>> /\ AllPositionalValid(Rows(blob)))
        => /\ Len(segments) = NumMarked(Rows(blob)) + 1
           /\ \A i \in 1..Len(Rows(blob)) :
                  Marked(Rows(blob)[i]) => i \in SegStarts(segments, 0)

\* C2 amended: such a payload yields N + 1 segments when it has a record and
\* its first record is not marked, N segments when the first record is marked
\* (none when the payload is empty), and each marked record is the first hit
\* of a segment.
C2_SegmentsPerMarkedRecord ==
    (returned /\ is_list(blob_seq(blob)) /\ AllPositionalValid(Rows(blob)))
        => /\ Len(segments) =
                  NumMarked(Rows(blob))
                  + (IF Rows(blob) # <<>> /\ ~Marked(Rows(blob)[1]) THEN 1 ELSE 0)
           /\ \A i \in 1..Len(Rows(blob)) :
                  Marked(Rows(blob)[i]) => i \in SegStarts(segments, 0)

\* A payload of three valid positional records whose first and last are marked
\* has been parsed.
C2_Witness ==
    /\ returned
    /\ is_list(blob_seq(blob))
    /\ AllPositionalValid(Rows(blob))
    /\ Len(Rows(blob)) = 3
    /\ Marked(Rows(blob)[1])
    /\ ~Marked(Rows(blob)[2])
    /\ Marked(Rows(blob)[3])
    /\ Len(segments) = 2

\* C4: every hit of every returned segment has numeric lat and numeric lon.
C4_HitsHaveNumericLatLon ==
    returned =>
        \A s \in 1..Len(segments) : \A j \in 1..Len(segments[s]) :
            IsNumeric(segments[s][j].lat) /\ IsNumeric(segments[s][j].lon)

\* A payload holding a positional and a keyed record without numeric
\* coordinates, and a valid record, has been parsed.
C4_Witness ==
    /\ returned
    /\ \E i \in 1..Len(Rows(blob)) :
           IsPositional(Rows(blob)[i]) /\ ~PosValid(Rows(blob)[i])
    /\ \E i \in 1..Len(Rows(blob)) :
           IsKeyed(Rows(blob)[i]) /\ ~IsNumeric(dict_get(Rows(blob)[i], "lat"))
    /\ Len(Flatten(segments)) = 1

\* The longitude of a keyed record as the specification reads it: under lon,
\* or under lng when lon is absent.
KeyedLongitude(row) ==
    IF "lon" \in DOMAIN row.d THEN row.d["lon"] ELSE dict_get(row, "lng")

\* C5: every keyed record with numeric lat and numeric longitude (0 included)
\* produces a hit that appears in a returned segment.
C5_KeyedNumericRecordIsAHit ==
    returned =>
        \A i \in 1..Len(Rows(blob)) :
            LET row == Rows(blob)[i]
            IN  (IsKeyed(row) /\ IsNumeric(dict_get(row, "lat"))
                              /\ IsNumeric(KeyedLongitude(row)))
                    => \E j \in 1..Len(Flatten(segments)) :
                           /\ Flatten(segments)[j].lat = dict_get(row, "lat")
                           /\ Flatten(segments)[j].lon = KeyedLongitude(row)

\* The number of hits extract_hits makes of the records rows[from..to].
HitsOf(b, rows, from, to) ==
    Len(Flatten(extract_hits(
        DictV([timestamp |-> blob_base_ts(b),
               trace |-> ListV(SubSeq(rows, from, to))]))))

\* C6: a marked positional record with invalid lat/lon closes the open
\* segment: the hits before it and the hits after it lie in different
\* segments, and the record itself is no hit.
C6_InvalidMarkedRecordClosesSegment ==
    returned =>
        \A i \in 1..Len(Rows(blob)) :
            LET rows == Rows(blob)
                before == HitsOf(blob, rows, 1, i - 1)
                after == HitsOf(blob, rows, i + 1, Len(rows))
            IN  (Marked(rows[i]) /\ ~PosValid(rows[i]))
                    => /\ Len(Flatten(segments)) = before + after
                       /\ (before > 0 /\ after > 0)
                              => before + 1 \in SegStarts(segments, 0)

\* A payload [valid, marked invalid, valid] has been parsed into two segments.
C6_Witness ==
    /\ returned
    /\ Len(Rows(blob)) = 3
    /\ IsPositional(Rows(blob)[1]) /\ PosValid(Rows(blob)[1])
    /\ Marked(Rows(blob)[2]) /\ ~PosValid(Rows(blob)[2])
    /\ IsPositional(Rows(blob)[3]) /\ PosValid(Rows(blob)[3]) /\ ~Marked(Rows(blob)[3])
    /\ Len(segments) = 2

\* The top level is neither an array nor a mapping holding a record array.
Malformed(b) ==
    /\ b.k # "list"
    /\ b.k = "dict" =>
           \A key \in {"trace", "positions", "trail"} \cap DOMAIN b.d :
               b.d[key].k # "list"

\* C7: no returned segment is empty, and a malformed top level yields no
\* segment.
C7_NoEmptySegment ==
    returned =>
        /\ \A s \in 1..Len(segments) : Len(segments[s]) >= 1
        /\ Flatten(segments) = <<>> => segments = <<>>
        /\ Malformed(blob) => segments = <<>>

\* A payload of marked records none of which is valid has been parsed.
C7_Witness ==
    /\ returned
    /\ Len(Rows(blob)) >= 2
    /\ \A i \in 1..Len(Rows(blob)) : Marked(Rows(blob)[i]) /\ ~PosValid(Rows(blob)[i])
    /\ segments = <<>>

\* The base timestamp the payload supplies, None when it supplies none.
BaseTimestamp(b) ==
    IF b.k = "dict" /\ "timestamp" \in DOMAIN b.d THEN b.d["timestamp"] ELSE None

\* The positional records of rows that have numeric lat and lon, in order.
ValidPositional(rows) == SelectSeq(rows, PosValid)

\* C9: in a payload of positional records, a hit's timestamp is base + offset
\* when both are numeric, and null otherwise.
C9_PositionalTimestamp ==
    (returned /\ \A i \in 1..Len(Rows(blob)) : IsPositional(Rows(blob)[i]))
        => LET hits == Flatten(segments)
               recs == ValidPositional(Rows(blob))
               base == BaseTimestamp(blob)
           IN  /\ Len(hits) = Len(recs)
               /\ \A j \in 1..Len(hits) :
                      IF IsNumeric(base) /\ IsNumeric(recs[j].items[1])
                      THEN /\ IsNumeric(hits[j].timestamp)
                           /\ hits[j].timestamp.n = base.n + recs[j].items[1].n
                      ELSE hits[j].timestamp = None

\* Hits with a numeric offset have been made under a numeric base timestamp,
\* and under a base timestamp that is not numeric.
C9_Witness ==
    /\ returned
    /\ Len(Rows(blob)) = 2
    /\ \A i \in 1..2 : IsPositional(Rows(blob)[i]) /\ PosValid(Rows(blob)[i])
    /\ IsNumeric(Rows(blob)[1].items[1])
    /\ ~IsNumeric(Rows(blob)[2].items[1])
    /\ BaseTimestamp(blob) = IntV(100)
    /\ Flatten(segments)[1].timestamp = IntV(105)
    /\ Flatten(segments)[2].timestamp = None

---------------------------------------------------------------------------
(* Strings: the Python string methods, on the strings the model uses *)

\* s.lower() of a key
lower(s) ==
    CASE s = "REG" -> "reg"
      [] s \in {"ICAOTYPE", "icaoType"} -> "icaotype"
      [] s = "Manufacturer" -> "manufacturer"
      [] s = "Model" -> "model"
      [] s \in {"OWNOP", "ownOp"} -> "ownop"
      [] s = "Owner" -> "owner"
      [] s = "OWN" -> "own"
      [] s = "Operator" -> "operator"
      [] s = "Country" -> "country"
      [] s \in {"Cou", "COU"} -> "cou"
      [] s \in {"dbFlags", "DBFLAGS"} -> "dbflags"
      [] s = "MIL" -> "mil"
      [] OTHER -> s

\* s.strip()
strip(s) ==
    CASE s \in {" ", "  "} -> ""
      [] s = "CS1 " -> "CS1"
      [] s = " glf4 " -> "glf4"
      [] s = " abc123 " -> "abc123"
      [] OTHER -> s

\* s.upper()
upper(s) ==
    CASE s = "glf4" -> "GLF4"
      [] s = "b738" -> "B738"
      [] s = "Gulfstream" -> "GULFSTREAM"
      [] s = "G-iv" -> "G-IV"
      [] s = "Gulfstream G-iv" -> "GULFSTREAM G-IV"
      [] s = "abc123" -> "ABC123"
      [] s = "abc12g" -> "ABC12G"
      [] OTHER -> s

\* The place of a callsign or of an ac_data key in Python's order of strings.
str_rank(s) ==
    CASE s = "CS0" -> 0
      [] s = "CS1" -> 1
      [] s = "CS2" -> 2
      [] s = "CS3" -> 3
      [] s = "alt_geom" -> 10
      [] s = "flight" -> 11
      [] s = "nav_modes" -> 12
      [] s = "ownOp" -> 13
      [] s = "r" -> 14
      [] s = "t" -> 15
      [] OTHER -> 4

RECURSIVE join(_, _)
\* sep.join(strs), of a sequence of str values
join(sep, strs) ==
    IF strs = <<>> THEN ""
    ELSE IF Len(strs) = 1 THEN strs[1].s
    ELSE strs[1].s \o sep \o join(sep, Tail(strs))

\* str(v)
py_str(v) ==
    CASE v.k = "str" -> v
      [] v.k = "int" -> StrV(ToString(v.n))
      [] v.k = "float" ->
             StrV(ToString(v.n) \o (IF "half" \in DOMAIN v THEN ".5" ELSE ".0"))
      [] v.k = "bool" -> StrV(IF v.n = 1 THEN "True" ELSE "False")
      [] v.k = "none" -> StrV("None")

\* The greatest bitmask value tried, and the numbers whose decimal text int()
\* is given to read.
MaxBitmask == 15

DecimalTexts == 0..MaxBitmask

\* int(v) succeeds
int_ok(v) ==
    \/ v.k \in {"int", "bool", "float"}
    \/ v.k = "str" /\ \E n \in DecimalTexts : ToString(n) = v.s

\* int(v), where it succeeds: a float is truncated
int_of(v) ==
    IF v.k = "str" THEN CHOOSE n \in DecimalTexts : ToString(n) = v.s ELSE v.n

---------------------------------------------------------------------------
(* Aircraft metadata helpers *)

\* AircraftMeta(hex=icao_hex)
AircraftMeta(hex) ==
    [hex          |-> StrV(hex),
     registration |-> None,
     type         |-> None,
     type_name    |-> None,
     owner        |-> None,
     manufacturer |-> None,
     model        |-> None,
     photo_url    |-> None,
     country      |-> None,
     flags        |-> None,
     callsigns    |-> None,
     description  |-> None,
     raw_record   |-> None]

\* ICAO aircraft type designator -> common name
ICAO_TYPE_NAMES ==
    ("GLF4" :> "Gulfstream IV / G-IV") @@ ("GLF5" :> "Gulfstream V / G-V") @@
    ("GLF6" :> "Gulfstream G650 / GVI") @@ ("B737" :> "Boeing 737 (classic/NG)") @@
    ("B738" :> "Boeing 737-800") @@ ("B739" :> "Boeing 737-900") @@
    ("B38M" :> "Boeing 737 MAX 8") @@ ("B37M" :> "Boeing 737 MAX 7") @@
    ("B39M" :> "Boeing 737 MAX 9") @@ ("A319" :> "Airbus A319") @@
    ("A320" :> "Airbus A320") @@ ("A321" :> "Airbus A321") @@
    ("A20N" :> "Airbus A320neo") @@ ("A21N" :> "Airbus A321neo") @@
    ("B744" :> "Boeing 747-400") @@ ("B748" :> "Boeing 747-8") @@
    ("B752" :> "Boeing 757-200") @@ ("B763" :> "Boeing 767-300") @@
    ("B772" :> "Boeing 777-200") @@ ("B773" :> "Boeing 777-300") @@
    ("B788" :> "Boeing 787-8 Dreamliner") @@ ("B789" :> "Boeing 787-9 Dreamliner") @@
    ("B78X" :> "Boeing 787-10 Dreamliner") @@ ("E170" :> "Embraer 170") @@
    ("E175" :> "Embraer 175") @@ ("E190" :> "Embraer 190") @@
    ("E195" :> "Embraer 195") @@ ("E75L" :> "Embraer 175 (long wing)") @@
    ("E75S" :> "Embraer 175 (short wing)") @@ ("CRJ2" :> "Bombardier CRJ200") @@
    ("CRJ7" :> "Bombardier CRJ700") @@ ("CRJ9" :> "Bombardier CRJ900") @@
    ("CRJX" :> "Bombardier CRJ1000") @@ ("AT45" :> "ATR 42-500") @@
    ("AT46" :> "ATR 42-600") @@ ("AT72" :> "ATR 72") @@
    ("AT76" :> "ATR 72-600") @@ ("C172" :> "Cessna 172 Skyhawk") @@
    ("C182" :> "Cessna 182 Skylane") @@ ("C208" :> "Cessna 208 Caravan") @@
    ("PC12" :> "Pilatus PC-12") @@ ("BE20" :> "Beechcraft King Air 200") @@
    ("PAY2" :> "Piper PA-31 Navajo")

\* " ".join([x for x in (a, b) if x])
join_truthy(a, b) == StrV(join(" ", SelectSeq(<<a, b>>, truthy)))

\* Mutant of apply_type_mapping: the table's name replaces a name already set.
apply_type_mapping_renaming(m) ==
    LET code == StrV(upper(strip(m.type.s)))
        m1 == IF truthy(m.type)
              THEN IF code.s \in DOMAIN ICAO_TYPE_NAMES
                   THEN [m EXCEPT !.type = code,
                                  !.type_name = StrV(ICAO_TYPE_NAMES[code.s])]
                   ELSE [m EXCEPT !.type = code]
              ELSE m
    IN  IF ~truthy(m1.type_name)
        THEN IF truthy(m1.manufacturer) \/ truthy(m1.model)
             THEN [m1 EXCEPT !.type_name = join_truthy(m1.manufacturer, m1.model)]
             ELSE IF truthy(m1.description)
             THEN [m1 EXCEPT !.type_name = m1.description]
             ELSE m1
        ELSE m1

\* apply_type_mapping(meta)
apply_type_mapping(m) ==
    LET code == StrV(upper(strip(m.type.s)))
        m1 == IF truthy(m.type)
              THEN IF ~truthy(m.type_name) /\ code.s \in DOMAIN ICAO_TYPE_NAMES
                   THEN [m EXCEPT !.type = code,
                                  !.type_name = StrV(ICAO_TYPE_NAMES[code.s])]
                   ELSE [m EXCEPT !.type = code]
              ELSE m
    IN  IF ~truthy(m1.type_name)
        THEN IF truthy(m1.manufacturer) \/ truthy(m1.model)
             THEN [m1 EXCEPT !.type_name = join_truthy(m1.manufacturer, m1.model)]
             ELSE IF truthy(m1.description)
             THEN [m1 EXCEPT !.type_name = m1.description]
             ELSE m1
        ELSE m1

\* The bit of value b is set in the non-negative int v: v & b
bit_set(v, b) == (v \div b) % 2 = 1

\* Mutant of flags_from_dbflags: LADD comes first.
flags_from_dbflags_ladd_first(dbflags) ==
    IF ~int_ok(dbflags)
    THEN None
    ELSE LET v == int_of(dbflags)
             flags == (IF bit_set(v, 8) THEN <<StrV("LADD")>> ELSE <<>>)
                      \o (IF bit_set(v, 1) THEN <<StrV("Military")>> ELSE <<>>)
                      \o (IF bit_set(v, 2) THEN <<StrV("Interesting")>> ELSE <<>>)
                      \o (IF bit_set(v, 4) THEN <<StrV("PIA")>> ELSE <<>>)
         IN  IF flags # <<>> THEN StrV(join(", ", flags)) ELSE None

\* flags_from_dbflags(dbflags)
flags_from_dbflags(dbflags) ==
    IF ~int_ok(dbflags)
    THEN None
    ELSE LET v == int_of(dbflags)
             flags == (IF bit_set(v, 1) THEN <<StrV("Military")>> ELSE <<>>)
                      \o (IF bit_set(v, 2) THEN <<StrV("Interesting")>> ELSE <<>>)
                      \o (IF bit_set(v, 4) THEN <<StrV("PIA")>> ELSE <<>>)
                      \o (IF bit_set(v, 8) THEN <<StrV("LADD")>> ELSE <<>>)
         IN  IF flags # <<>> THEN StrV(join(", ", flags)) ELSE None

\* lower_map.get(k.lower()) of the dict d: the key of d that k names, if any.
has_key_ci(d, k) == \E real \in DOMAIN d.d : lower(real) = lower(k)

real_key(d, k) == CHOOSE real \in DOMAIN d.d : lower(real) = lower(k)

\* get_any_ci(*keys) of merge_adsbx_record_into_meta
get_any_ci(rec, keys) ==
    IF ~is_dict(rec)
    THEN None
    ELSE LET found == SelectSeq(keys, LAMBDA k :
                          /\ has_key_ci(rec, k)
                          /\ rec.d[real_key(rec, k)] \notin {None, StrV("")})
         IN  IF found = <<>> THEN None ELSE py_str(rec.d[real_key(rec, found[1])])

\* The country step of merge_adsbx_record_into_meta.
merge_country(country, m) ==
    IF truthy(country) THEN [m EXCEPT !.country = country] ELSE m

\* merge_adsbx_record_into_meta(rec, meta)
merge_adsbx_record_into_meta(rec, m) ==
    LET reg == get_any_ci(rec, <<"REG", "reg", "r", "registration", "tail">>)
        icao_type == get_any_ci(rec, <<"ICAOTYPE", "icaoType", "t", "type">>)
        man == get_any_ci(rec, <<"Manufacturer", "manufacturer", "man", "mfr">>)
        mdl == get_any_ci(rec, <<"Model", "model", "mdl">>)
        owner == get_any_ci(rec, <<"OWNOP", "Owner", "owner", "OWN", "operator",
                                   "Operator", "op", "ownercode", "opicao">>)
        country == get_any_ci(rec, <<"Country", "country", "Cou", "COU">>)
        dbf == get_any_ci(rec, <<"dbFlags", "DBFLAGS">>)
        f == IF dbf # None THEN flags_from_dbflags(dbf) ELSE None
        m1 == IF truthy(reg) /\ ~truthy(m.registration)
              THEN [m EXCEPT !.registration = reg] ELSE m
        m2 == IF truthy(man) /\ ~truthy(m1.manufacturer)
              THEN [m1 EXCEPT !.manufacturer = man] ELSE m1
        m3 == IF truthy(mdl) /\ ~truthy(m2.model)
              THEN [m2 EXCEPT !.model = mdl] ELSE m2
        m4 == IF ~truthy(m3.type) /\ truthy(icao_type)
              THEN [m3 EXCEPT !.type = icao_type]
              ELSE IF ~truthy(m3.type) /\ (truthy(man) \/ truthy(mdl))
              THEN [m3 EXCEPT !.type = join_truthy(man, mdl)]
              ELSE m3
        m5 == IF truthy(owner) /\ ~truthy(m4.owner)
              THEN [m4 EXCEPT !.owner = owner] ELSE m4
        m6 == merge_country(country, m5)
        m7 == IF truthy(f) /\ ~truthy(m6.flags)
              THEN [m6 EXCEPT !.flags = f] ELSE m6
    IN  [m7 EXCEPT !.raw_record = rec]

\* get_ci(*keys) of merge_trace_blob_into_meta and enrich_meta_from_hits
get_ci(d, keys) ==
    LET found == SelectSeq(keys, LAMBDA k :
                     /\ has_key_ci(d, k)
                     /\ is_str(d.d[real_key(d, k)])
                     /\ strip(d.d[real_key(d, k)].s) # "")
    IN  IF found = <<>> THEN None ELSE StrV(strip(d.d[real_key(d, found[1])].s))

\* The value under the key that lower-cases to "dbflags", None without one.
get_dbflags(d) ==
    IF has_key_ci(d, "dbflags") THEN d.d[real_key(d, "dbflags")] ELSE None

\* Mutant of fill: the field is written even when it has a value.
fill_even_set(m, field, v) ==
    IF truthy(v) THEN [m EXCEPT ![field] = v] ELSE m

\* The fill of a field that is still empty: "if not meta.x: v = ...; if v: meta.x = v"
fill(m, field, v) ==
    IF ~truthy(m[field]) /\ truthy(v) THEN [m EXCEPT ![field] = v] ELSE m

\* Mutant of add_callsign: the callsign is appended even when known.
add_callsign_even_known(m, cs) ==
    IF ~truthy(cs)
    THEN m
    ELSE IF m.callsigns = None
    THEN [m EXCEPT !.callsigns = ListV(<<cs>>)]
    ELSE [m EXCEPT !.callsigns = ListV(Append(m.callsigns.items, cs))]

\* The callsign step of merge_trace_blob_into_meta.
add_callsign(m, cs) ==
    IF ~truthy(cs)
    THEN m
    ELSE IF m.callsigns = None
    THEN [m EXCEPT !.callsigns = ListV(<<cs>>)]
    ELSE IF \A i \in 1..Len(m.callsigns.items) : m.callsigns.items[i] # cs
    THEN [m EXCEPT !.callsigns = ListV(Append(m.callsigns.items, cs))]
    ELSE m

\* merge_trace_blob_into_meta(blob, meta)
merge_trace_blob_into_meta(b, m) ==
    IF ~is_dict(b)
    THEN m
    ELSE LET m1 == fill(m, "registration", get_ci(b, <<"r", "reg", "registration", "tail">>))
             m2 == fill(m1, "type", get_ci(b, <<"t", "type", "icaoType", "icao_type">>))
             m3 == fill(m2, "description", get_ci(b, <<"desc", "description">>))
             m4 == fill(m3, "owner",
                        get_ci(b, <<"owner", "Owner", "op", "operator", "OWNOP">>))
             m5 == fill(m4, "flags", flags_from_dbflags(get_dbflags(b)))
         IN  add_callsign(m5, get_ci(b, <<"flight", "call", "callsign", "cs">>))

RECURSIVE sorted(_)
\* sorted(strs): the str values of the set strs in Python's order.
sorted(strs) ==
    IF strs = {}
    THEN <<>>
    ELSE LET least == CHOOSE a \in strs : \A b \in strs : str_rank(a.s) <= str_rank(b.s)
         IN  <<least>> \o sorted(strs \ {least})

\* The flags a hit's ac_data gives: its decoded dbFlags, else "Military=" + mil.
hit_flags(ac) ==
    LET dbf == get_dbflags(ac)
        f == IF dbf # None THEN flags_from_dbflags(dbf) ELSE None
        mil == get_ci(ac, <<"MIL", "mil", "military">>)
    IN  IF ~truthy(f) /\ truthy(mil) THEN StrV("Military=" \o mil.s) ELSE f

\* The callsigns of a hit's ac_data: every str under call, callsign, cs, flight
\* that is not blank, stripped.
hit_callsigns(ac) ==
    {StrV(strip(ac.d[real_key(ac, k)].s)) :
        k \in {k \in {"call", "callsign", "cs", "flight"} :
                  /\ has_key_ci(ac, k)
                  /\ is_str(ac.d[real_key(ac, k)])
                  /\ strip(ac.d[real_key(ac, k)].s) # ""}}

\* One turn of the loop "for hit in seg" of enrich_meta_from_hits; st holds
\* meta and the callsigns set.
enrich_hit(st, hit) ==
    LET ac == IF "ac_data" \in DOMAIN hit THEN hit["ac_data"] ELSE None
    IN  IF ~is_dict(ac)
        THEN st
        ELSE LET m1 == fill(st.meta, "registration",
                            get_ci(ac, <<"r", "reg", "registration", "tail",
                                         "tailnum", "tail_num">>))
                 m2 == fill(m1, "type", get_ci(ac, <<"t", "type", "icaoType", "icao_type">>))
                 m3 == fill(m2, "owner",
                            get_ci(ac, <<"owner", "Owner", "op", "operator", "OWNOP">>))
                 m4 == fill(m3, "flags", hit_flags(ac))
             IN  [meta |-> m4, callsigns |-> st.callsigns \cup hit_callsigns(ac)]

RECURSIVE enrich_loop(_, _, _)
enrich_loop(st, hits, i) ==
    IF i > Len(hits) THEN st ELSE enrich_loop(enrich_hit(st, hits[i]), hits, i + 1)

\* The hits of segs in the order of "for seg in segments: for hit in seg".
RECURSIVE hits_in_order(_)
hits_in_order(segs) ==
    IF segs = <<>> THEN <<>> ELSE Head(segs) \o hits_in_order(Tail(segs))

\* enrich_meta_from_hits(meta, segments)
enrich_meta_from_hits(m, segs) ==
    LET callsigns == IF truthy(m.callsigns)
                     THEN {m.callsigns.items[i] : i \in 1..Len(m.callsigns.items)}
                     ELSE {}
        st == enrich_loop([meta |-> m, callsigns |-> callsigns], hits_in_order(segs), 1)
    IN  IF st.callsigns # {}
        THEN [st.meta EXCEPT !.callsigns = ListV(sorted(st.callsigns))]
        ELSE st.meta

---------------------------------------------------------------------------
(* The exporters: build_kml, build_csv and build_json *)

\* The characters of a str value; a time_iso is written as its instant.
text(v) == IF "at" \in DOMAIN v THEN "T" \o ToString(v.at) \o "Z" ELSE v.s

\* str(v), as characters
str_text(v) == text(py_str(v))

\* hit.get(key)
hit_get(hit, key) == IF key \in DOMAIN hit THEN hit[key] ELSE None

\* hit.get(key, "")
hit_get_or_empty(hit, key) == IF key \in DOMAIN hit THEN hit[key] ELSE StrV("")

\* float(v) succeeds: on a number and on the decimal text of one
float_ok(v) == is_int_or_float(v) \/ (is_str(v) /\ int_ok(v))

\* float(v), where it succeeds
py_float(v) == IF "half" \in DOMAIN v THEN v ELSE FloatV(int_of(v))

\* k.capitalize() of a meta key
capitalize(k) ==
    CASE k = "registration" -> "Registration"
      [] k = "type" -> "Type"
      [] k = "type_name" -> "Type_name"
      [] k = "owner" -> "Owner"
      [] k = "description" -> "Description"

\* The keys of a hit dict in the order extract_hits inserts them.
HitKeyOrder ==
    <<"timestamp", "time_iso", "lat", "lon", "alt", "alt_ft", "gs", "gs_knots",
      "track", "track_deg", "flags", "vrt", "vrt_fpm", "ac_data">>

\* The keys of the exporters' meta dict in the order Worker.run inserts them.
MetaKeyOrder ==
    <<"icao", "registration", "type", "type_name", "owner", "manufacturer",
      "model", "description">>

RECURSIVE keys_of(_)
\* The keys of a dict, one after the other.
keys_of(S) ==
    IF S = {} THEN <<>>
    ELSE LET k == CHOOSE k \in S : TRUE IN <<k>> \o keys_of(S \ {k})

\* The JSON text of a value that is neither a list nor a dict.
json_scalar(v) ==
    CASE v.k = "none" -> "null"
      [] v.k = "bool" -> IF v.n = 1 THEN "true" ELSE "false"
      [] v.k = "int" -> ToString(v.n)
      [] v.k = "float" -> str_text(v)
      [] v.k = "str" -> "\"" \o text(v) \o "\""

RECURSIVE json_tokens(_), json_items(_, _), json_members(_, _, _)
\* The JSON text of v, as the sequence of its tokens: json.dump and json.dumps
\* differ in the white space they put between them.
json_tokens(v) ==
    IF v.k = "list" THEN <<"[">> \o json_items(v.items, 1) \o <<"]">>
    ELSE IF v.k = "dict" THEN <<"{">> \o json_members(v.d, keys_of(DOMAIN v.d), 1) \o <<"}">>
    ELSE <<json_scalar(v)>>

json_items(items, i) ==
    IF i > Len(items) THEN <<>>
    ELSE (IF i > 1 THEN <<",">> ELSE <<>>)
         \o json_tokens(items[i]) \o json_items(items, i + 1)

json_members(d, keys, i) ==
    IF i > Len(keys) THEN <<>>
    ELSE (IF i > 1 THEN <<",">> ELSE <<>>)
         \o <<"\"" \o keys[i] \o "\"", ":">>
         \o json_tokens(d[keys[i]]) \o json_members(d, keys, i + 1)

RECURSIVE spaced(_)
\* The tokens written on one line, with a space after each "," and ":".
spaced(toks) ==
    IF toks = <<>> THEN ""
    ELSE (IF Head(toks) = "," THEN ", " ELSE IF Head(toks) = ":" THEN ": " ELSE Head(toks))
         \o spaced(Tail(toks))

\* json.dumps(v, ensure_ascii=False)
json_dumps(v) == spaced(json_tokens(v))

\* The value of a decimal digit.
digit(c) ==
    CASE c = "0" -> 0 [] c = "1" -> 1 [] c = "2" -> 2 [] c = "3" -> 3 [] c = "4" -> 4
      [] c = "5" -> 5 [] c = "6" -> 6 [] c = "7" -> 7 [] c = "8" -> 8 [] c = "9" -> 9

RECURSIVE number_of(_)
\* The number a sequence of decimal digits, with or without a sign, writes.
number_of(s) ==
    IF s = "" THEN 0
    ELSE IF SubSeq(s, 1, 1) = "-" THEN 0 - number_of(SubSeq(s, 2, Len(s)))
    ELSE 10 * number_of(SubSeq(s, 1, Len(s) - 1)) + digit(SubSeq(s, Len(s), Len(s)))

\* The value a JSON token other than a bracket writes.
json_scalar_of(t) ==
    IF t = "null" THEN None
    ELSE IF t = "true" THEN BoolV(TRUE)
    ELSE IF t = "false" THEN BoolV(FALSE)
    ELSE IF SubSeq(t, 1, 1) = "\"" THEN StrV(SubSeq(t, 2, Len(t) - 1))
    ELSE IF Len(t) > 2 /\ SubSeq(t, Len(t) - 1, Len(t)) = ".0"
    THEN FloatV(number_of(SubSeq(t, 1, Len(t) - 2)))
    ELSE IF Len(t) > 2 /\ SubSeq(t, Len(t) - 1, Len(t)) = ".5"
    THEN HalfV(number_of(SubSeq(t, 1, Len(t) - 2)))
    ELSE IntV(number_of(t))

RECURSIVE parse_value(_), parse_items(_, _), parse_members(_, _)
\* The value at the head of a token sequence, and the tokens after it.
parse_value(toks) ==
    IF Head(toks) = "["
    THEN IF toks[2] = "]"
         THEN [value |-> ListV(<<>>), rest |-> SubSeq(toks, 3, Len(toks))]
         ELSE parse_items(Tail(toks), <<>>)
    ELSE IF Head(toks) = "{"
    THEN IF toks[2] = "}"
         THEN [value |-> DictV(EmptyDict), rest |-> SubSeq(toks, 3, Len(toks))]
         ELSE parse_members(Tail(toks), EmptyDict)
    ELSE [value |-> json_scalar_of(Head(toks)), rest |-> Tail(toks)]

parse_items(toks, items) ==
    LET first == parse_value(toks)
        more == Append(items, first.value)
    IN  IF Head(first.rest) = ","
        THEN parse_items(Tail(first.rest), more)
        ELSE [value |-> ListV(more), rest |-> Tail(first.rest)]

parse_members(toks, d) ==
    LET key == json_scalar_of(toks[1]).s
        first == parse_value(SubSeq(toks, 3, Len(toks)))
        more == (key :> first.value) @@ d
    IN  IF Head(first.rest) = ","
        THEN parse_members(Tail(first.rest), more)
        ELSE [value |-> DictV(more), rest |-> Tail(first.rest)]

\* json.loads of a JSON text, given as its tokens
json_loads(toks) == parse_value(toks).value

\* The hits of a segment that the exporters keep, as their indexes: those
\* whose lat and lon float() converts.
kept(seg) ==
    LET has_coords(j) == /\ float_ok(hit_get(seg[j], "lat"))
                         /\ float_ok(hit_get(seg[j], "lon"))
    IN  SelectSeq([j \in 1..Len(seg) |-> j], has_coords)

\* The ac_data of a hit where it is a dict, else {}.
ac_data_of(hit) ==
    IF is_dict(hit_get(hit, "ac_data")) THEN hit_get(hit, "ac_data") ELSE DictV(EmptyDict)

\* Mutant of discover_ac_keys: only the first hit's ac_data is looked at.
discover_ac_keys_of_first_hit(segs) ==
    LET hits == hits_in_order(segs)
        ac_key_set == UNION {DOMAIN ac_data_of(hits[i]).d : i \in 1..Len(hits) \cap {1}}
        ac_keys == sorted({StrV(k) : k \in ac_key_set})
    IN  [i \in 1..Len(ac_keys) |-> ac_keys[i].s]

\* "Discover all ac_data keys": the sorted keys of every hit's ac_data.
discover_ac_keys(segs) ==
    LET hits == hits_in_order(segs)
        ac_key_set == UNION {DOMAIN ac_data_of(hits[i]).d : i \in 1..Len(hits)}
        ac_keys == sorted({StrV(k) : k \in ac_key_set})
    IN  [i \in 1..Len(ac_keys) |-> ac_keys[i].s]

\* The value written for the key k of a hit's ac_data: "" when it is absent,
\* JSON when it is a dict or a list.
ac_value(ac, k) ==
    LET v == IF k \in DOMAIN ac.d THEN ac.d[k] ELSE StrV("")
    IN  IF is_dict(v) \/ is_list(v) THEN StrV(json_dumps(v)) ELSE v

\* The lines "key: value" of the meta values that are set.
meta_lines(mt, capitalized) ==
    LET is_set(k) == truthy(dict_get(mt, k))
        keys == SelectSeq(<<"registration", "type", "type_name", "owner", "description">>,
                          is_set)
    IN  [i \in 1..Len(keys) |->
            (IF capitalized THEN capitalize(keys[i]) ELSE keys[i])
            \o ": " \o str_text(mt.d[keys[i]])]

\* One point placemark of build_kml.
kml_point(hit, seg_idx, pt_idx, mt, ac_keys) ==
    LET time_iso == hit_get(hit, "time_iso")
        has_value(k) == hit_get(hit, k) # None
        described == SelectSeq(<<"time_iso", "alt_ft", "gs_knots", "track_deg",
                                 "vrt_fpm", "flags">>, has_value)
        ac_data == hit_get(hit, "ac_data")
        is_field(k) == k \in DOMAIN hit /\ k # "ac_data" /\ hit[k] # None
        fields == SelectSeq(HitKeyOrder, is_field)
        is_meta(k) == k \in DOMAIN mt.d /\ mt.d[k] # None
        metas == SelectSeq(MetaKeyOrder, is_meta)
    IN  [name |-> IF truthy(time_iso) THEN text(time_iso)
                  ELSE "Seg " \o ToString(seg_idx) \o " Pt " \o ToString(pt_idx),
         coords |-> <<py_float(hit_get(hit, "lon")), py_float(hit_get(hit, "lat"))>>,
         when |-> IF truthy(time_iso) THEN time_iso ELSE None,
         description |->
             <<"Segment: " \o ToString(seg_idx), "Index: " \o ToString(pt_idx)>>
             \o [i \in 1..Len(described) |->
                    described[i] \o ": " \o str_text(hit[described[i]])]
             \o meta_lines(mt, FALSE)
             \o (IF is_dict(ac_data) /\ truthy(ac_data)
                 THEN <<"AC data: " \o json_dumps(ac_data)>> ELSE <<>>),
         extendeddata |->
             [i \in 1..Len(fields) |-> <<fields[i], str_text(hit[fields[i]])>>]
             \o [i \in 1..Len(metas) |-> <<"meta_" \o metas[i], str_text(mt.d[metas[i]])>>]
             \o [i \in 1..Len(ac_keys) |->
                    <<ac_keys[i], str_text(ac_value(ac_data_of(hit), ac_keys[i]))>>]]

\* build_kml(segments, hex_code, meta, out_path): the document saved.
build_kml(segs, hex_code, mt) ==
    LET ac_keys == discover_ac_keys(segs)
        coords(i) == [n \in 1..Len(kept(segs[i])) |->
                         LET hit == segs[i][kept(segs[i])[n]]
                         IN  <<py_float(hit_get(hit, "lon")), py_float(hit_get(hit, "lat"))>>]
        is_line(i) == Len(coords(i)) >= 2
        lines == SelectSeq([i \in 1..Len(segs) |-> i], is_line)
        points == hits_in_order(
            [i \in 1..Len(segs) |->
                [n \in 1..Len(kept(segs[i])) |->
                    kml_point(segs[i][kept(segs[i])[n]], i,
                              kept(segs[i])[n], mt, ac_keys)]])
    IN  [name |-> "ADSBx " \o upper(hex_code) \o " Track",
         description |-> <<"ICAO: " \o upper(hex_code)>> \o meta_lines(mt, TRUE),
         linestrings |-> [n \in 1..Len(lines) |->
                             [name |-> "Segment " \o ToString(lines[n]),
                              coords |-> coords(lines[n])]],
         points |-> points,
         no_valid_points |-> points = <<>>]

\* Mutant of csv_cell: None is written as its str().
csv_cell_writing_none(v) == str_text(v)

\* The cell csv.writer writes for a value: nothing for None, else its str().
csv_cell(v) == IF v = None THEN "" ELSE str_text(v)

\* The base columns of the CSV.
base_header ==
    <<"icao_hex", "segment", "point_index", "time_unix", "time_iso", "latitude",
      "longitude", "alt_ft", "gs_knots", "track_deg", "vrt_fpm", "flags",
      "registration", "type", "type_name", "owner", "description">>

\* One data row of build_csv.
csv_row(hit, seg_idx, pt_idx, hex_code, mt, ac_keys) ==
    LET ac_data == ac_data_of(hit)
        ac_json == IF truthy(ac_data) THEN StrV(json_dumps(ac_data)) ELSE StrV("")
        row == <<StrV(upper(hex_code)), IntV(seg_idx), IntV(pt_idx),
                 IF hit_get(hit, "timestamp") # None THEN hit_get(hit, "timestamp")
                 ELSE StrV(""),
                 py_or(hit_get(hit, "time_iso"), StrV("")),
                 py_float(hit_get(hit, "lat")),
                 py_float(hit_get(hit, "lon")),
                 hit_get_or_empty(hit, "alt_ft"),
                 hit_get_or_empty(hit, "gs_knots"),
                 hit_get_or_empty(hit, "track_deg"),
                 hit_get_or_empty(hit, "vrt_fpm"),
                 hit_get_or_empty(hit, "flags"),
                 py_or(dict_get(mt, "registration"), StrV("")),
                 py_or(dict_get(mt, "type"), StrV("")),
                 py_or(dict_get(mt, "type_name"), StrV("")),
                 py_or(dict_get(mt, "owner"), StrV("")),
                 py_or(dict_get(mt, "description"), StrV(""))>>
               \o [i \in 1..Len(ac_keys) |-> ac_value(ac_data, ac_keys[i])]
               \o <<ac_json>>
    IN  [i \in 1..Len(row) |-> csv_cell(row[i])]

\* build_csv(segments, hex_code, meta, out_path): the rows written.
build_csv(segs, hex_code, mt) ==
    LET ac_keys == discover_ac_keys(segs)
    IN  [header |-> base_header \o ac_keys \o <<"ac_data_json">>,
         rows |-> hits_in_order(
            [i \in 1..Len(segs) |->
                [n \in 1..Len(kept(segs[i])) |->
                    csv_row(segs[i][kept(segs[i])[n]], i,
                            kept(segs[i])[n], hex_code, mt, ac_keys)]])]

\* Mutant of build_json: enumerate(segments) counts from 0.
build_json_from_zero(segs, hex_code, mt) ==
    json_tokens(DictV(
        [icao_hex |-> StrV(upper(hex_code)),
         meta |-> mt,
         segments |-> ListV(
            [i \in 1..Len(segs) |->
                DictV([segment |-> IntV(i - 1),
                       points |-> ListV([j \in 1..Len(segs[i]) |->
                                            DictV(segs[i][j])])])])]))

\* build_json(segments, hex_code, meta, out_path): the document written.
build_json(segs, hex_code, mt) ==
    json_tokens(DictV(
        [icao_hex |-> StrV(upper(hex_code)),
         meta |-> mt,
         segments |-> ListV(
            [i \in 1..Len(segs) |->
                DictV([segment |-> IntV(i),
                       points |-> ListV([j \in 1..Len(segs[i]) |->
                                            DictV(segs[i][j])])])])]))

---------------------------------------------------------------------------
(* The collaborators' answers *)

\* s.lower() of an ICAO hex
lower_hex(s) ==
    CASE s = "ABC123" -> "abc123"
      [] s = "FFFFFF" -> "ffffff"
      [] OTHER -> s

\* fetch_opensky_metadata(icao_hex), given what the request answers: a record
\* [ok |-> FALSE] for an exception or a status other than 200, and
\* [ok |-> TRUE, data |-> r.json()] otherwise.
fetch_opensky_metadata(hex, answer) ==
    LET m == AircraftMeta(hex)
    IN  IF ~answer.ok
        THEN m
        ELSE LET data == py_or(answer.data, DictV(EmptyDict))
                 registration == py_or(dict_get(data, "registration"), None)
                 manufacturer == py_or(dict_get(data, "manufacturerName"), None)
                 model == py_or(dict_get(data, "model"), None)
                 owner == py_or(dict_get(data, "owner"), None)
                 icaoType == dict_get(data, "icaoType")
                 type == IF truthy(manufacturer) /\ truthy(model)
                         THEN py_or(icaoType, StrV(manufacturer.s \o " " \o model.s))
                         ELSE IF truthy(icaoType) THEN icaoType
                         ELSE IF truthy(model) THEN model
                         ELSE None
             IN  [m EXCEPT !.registration = registration,
                           !.manufacturer = manufacturer,
                           !.model = model,
                           !.owner = owner,
                           !.type = type]

\* Mutant of fetch_planespotters_photo_and_reg: a request that fails gives a
\* placeholder photo.
fetch_planespotters_photo_and_reg_or_placeholder(answer) ==
    IF ~answer.ok
    THEN <<StrV("http://photo/1"), None>>
    ELSE LET data == py_or(answer.data, DictV(EmptyDict))
             photos == py_or(dict_get(data, "photos"), ListV(<<>>))
         IN  IF ~truthy(photos)
             THEN <<None, None>>
             ELSE LET ph == photos.items[1]
                      thumbnails == py_or(dict_get(ph, "thumbnail"), DictV(EmptyDict))
                      large == py_or(dict_get(thumbnails, "large"),
                                     dict_get(thumbnails, "src"))
                      reg == py_or(py_or(dict_get(ph, "registration"),
                                         dict_get(ph, "reg")), None)
                  IN  <<large, reg>>

\* fetch_planespotters_photo_and_reg(icao_hex), given what the request answers:
\* [ok |-> FALSE] for an exception, a status other than 200 or a body that is
\* not JSON.
fetch_planespotters_photo_and_reg(answer) ==
    IF ~answer.ok
    THEN <<None, None>>
    ELSE LET data == py_or(answer.data, DictV(EmptyDict))
             photos == py_or(dict_get(data, "photos"), ListV(<<>>))
         IN  IF ~truthy(photos)
             THEN <<None, None>>
             ELSE LET ph == photos.items[1]
                      thumbnails == py_or(dict_get(ph, "thumbnail"), DictV(EmptyDict))
                      large == py_or(dict_get(thumbnails, "large"),
                                     dict_get(thumbnails, "src"))
                      reg == py_or(py_or(dict_get(ph, "registration"),
                                         dict_get(ph, "reg")), None)
                  IN  <<large, reg>>

\* The ICAO field of a database record.
acdb_icao_field(rec) ==
    py_or(py_or(py_or(py_or(dict_get(rec, "ICAO"), dict_get(rec, "icao")),
                      dict_get(rec, "icao24")), dict_get(rec, "ICAO24")),
          dict_get(rec, "hex"))

\* find_acdb_record(db, icao_hex), of a database that is a list of records.
find_acdb_record(db, hex) ==
    IF ~truthy(db)
    THEN None
    ELSE LET found == SelectSeq(db.items, LAMBDA rec :
                          /\ is_dict(rec)
                          /\ is_str(acdb_icao_field(rec))
                          /\ lower_hex(acdb_icao_field(rec).s) = lower_hex(hex))
         IN  IF found = <<>> THEN None ELSE found[1]

---------------------------------------------------------------------------
(* Worker.run: the merges of lines 1056-1084 *)

\* The merge of the OpenSky result: lines 1057-1061.
merge_opensky(os_meta, m) ==
    LET m1 == IF truthy(os_meta.registration) /\ ~truthy(m.registration)
              THEN [m EXCEPT !.registration = os_meta.registration] ELSE m
        m2 == IF truthy(os_meta.manufacturer) /\ ~truthy(m1.manufacturer)
              THEN [m1 EXCEPT !.manufacturer = os_meta.manufacturer] ELSE m1
        m3 == IF truthy(os_meta.model) /\ ~truthy(m2.model)
              THEN [m2 EXCEPT !.model = os_meta.model] ELSE m2
        m4 == IF truthy(os_meta.owner) /\ ~truthy(m3.owner)
              THEN [m3 EXCEPT !.owner = os_meta.owner] ELSE m3
    IN  IF truthy(os_meta.type) /\ ~truthy(m4.type)
        THEN [m4 EXCEPT !.type = os_meta.type] ELSE m4

\* Mutant of merge_planespotters: the registration is taken even when set.
merge_planespotters_unguarded(photo_url, reg2, m) ==
    LET m1 == IF truthy(photo_url) THEN [m EXCEPT !.photo_url = photo_url] ELSE m
    IN  IF truthy(reg2) THEN [m1 EXCEPT !.registration = reg2] ELSE m1

\* The merge of the Planespotters result: lines 1066-1070.
merge_planespotters(photo_url, reg2, m) ==
    LET m1 == IF truthy(photo_url) THEN [m EXCEPT !.photo_url = photo_url] ELSE m
    IN  IF truthy(reg2) /\ ~truthy(m1.registration)
        THEN [m1 EXCEPT !.registration = reg2] ELSE m1

\* The merge of the database record: lines 1077-1080.
merge_acdb(db, hex, m) ==
    LET rec == find_acdb_record(db, hex)
    IN  IF truthy(rec) THEN merge_adsbx_record_into_meta(rec, m) ELSE m

---------------------------------------------------------------------------
(* The reconciler harness: the merges called, in any order, on one          *)
(* AircraftMeta.                                                            *)

MaxCalls == 2

\* Marks a key the dict does not have.
Absent == [k |-> "absent"]

\* The dict of the keys of r that are not marked absent.
DictOf(r) == DictV([key \in {x \in DOMAIN r : r[x] # Absent} |-> r[key]])

\* Records of the bulk aircraft database.
AcdbRecords ==
    {DictOf([reg |-> reg, ownop |-> own, Country |-> cou]) :
        reg \in {Absent, StrV("N1"), StrV("N2")},
        own \in {Absent, StrV("ACME")},
        cou \in {Absent, StrV("US"), StrV("DE")}}
    \cup {DictOf([icaotype |-> t, manufacturer |-> man, model |-> mdl]) :
        t \in {Absent, StrV("glf4")},
        man \in {Absent, StrV("Gulfstream")},
        mdl \in {Absent, StrV("G-iv"), StrV("")}}
    \cup {DictOf([dbFlags |-> dbf, REG |-> reg]) :
        dbf \in {IntV(9), StrV("0"), StrV("junk"), None},
        reg \in {Absent, IntV(7)}}

\* Trace payloads, of which merge_trace_blob_into_meta reads the header.
TraceHeaders ==
    {DictOf([r |-> r, ownOp |-> own, desc |-> desc]) :
        r \in {Absent, StrV("N3"), StrV(" "), IntV(7)},
        own \in {Absent, StrV("OPS")},
        desc \in {Absent, StrV("GULFSTREAM 4")}}
    \cup {DictOf([t |-> t, dbFlags |-> dbf, flight |-> cs, call |-> call]) :
        t \in {Absent, StrV("b738")},
        dbf \in {Absent, IntV(1), IntV(0)},
        cs \in {Absent, StrV("CS2"), StrV("CS1 ")},
        call \in {Absent, StrV("CS0")}}
    \cup {None, ListV(<<>>)}

\* Identity attributes embedded in a hit.
AcDatas ==
    {DictOf([r |-> r, t |-> t, ownOp |-> own]) :
        r \in {Absent, StrV("N4")},
        t \in {Absent, StrV("C172")},
        own \in {Absent, StrV("HITOP")}}
    \cup {DictOf([dbFlags |-> dbf, mil |-> mil]) :
        dbf \in {Absent, IntV(8), IntV(0)},
        mil \in {Absent, StrV("1")}}
    \cup {DictOf([flight |-> cs, call |-> call]) :
        cs \in {Absent, StrV("CS3"), StrV("CS1 ")},
        call \in {Absent, StrV("CS0")}}

\* A hit that carries ac_data, and one that carries none.
HitWith(ac) == [lat |-> FloatV(1), lon |-> FloatV(2), ac_data |-> ac]

BareHit == [lat |-> FloatV(1), lon |-> FloatV(2)]

\* Segment lists handed to enrich_meta_from_hits.
HitSegments ==
    {<<<<HitWith(ac)>>>> : ac \in AcDatas}
    \cup {<<<<HitWith(a), BareHit>>, <<HitWith(b)>>>> :
        a \in {DictOf([r |-> StrV("N4")]),
               DictOf([mil |-> StrV("1"), cs |-> StrV("CS3")])},
        b \in {DictOf([r |-> StrV("N5"), flight |-> StrV("CS2")]),
               DictOf([dbFlags |-> IntV(2), cs |-> StrV("CS0")])}}

\* What the OpenSky request answers.
OpenSkyAnswers ==
    {[ok |-> FALSE],
     [ok |-> TRUE, data |-> DictV(EmptyDict)],
     [ok |-> TRUE, data |-> DictV([registration |-> StrV("N1"), owner |-> StrV("OWN1")])],
     [ok |-> TRUE, data |-> DictV([registration |-> StrV(""), icaoType |-> StrV("glf4")])],
     [ok |-> TRUE, data |-> DictV([manufacturerName |-> StrV("Gulfstream"),
                                   model |-> StrV("G-iv")])]}

\* What the Planespotters request answers.
PlanespottersAnswers ==
    {[ok |-> FALSE],
     [ok |-> TRUE, data |-> DictV([photos |-> ListV(<<>>)])],
     [ok |-> TRUE, data |-> DictV([photos |-> ListV(<<
         DictV([thumbnail |-> DictV([large |-> StrV("http://photo/1")])])>>)])],
     [ok |-> TRUE, data |-> DictV([photos |-> ListV(<<
         DictV([thumbnail |-> DictV([src |-> StrV("http://photo/2")]),
                registration |-> StrV("N2")])>>)])]}

\* A call of the merge fn with the source arg.
Call(fn, arg) == [fn |-> fn, arg |-> arg]

InitMerge ==
    /\ meta = AircraftMeta("abc123")
    /\ calls = <<>>
    /\ called = NoCall
    /\ IdleParser
    /\ IdleWorker
    /\ IdleAcdb
    /\ IdleWindow

\* merge_adsbx_record_into_meta(rec, meta)
CallMergeAdsbx ==
    /\ Len(calls) < MaxCalls
    /\ \E rec \in AcdbRecords :
        /\ meta' = merge_adsbx_record_into_meta(rec, meta)
        /\ calls' = Append(calls, Call("merge_adsbx_record_into_meta", rec))
    /\ UNCHANGED <<parser_vars, worker_vars, call_vars, acdb_vars, gui_vars>>

\* merge_trace_blob_into_meta(blob, meta)
CallMergeTraceBlob ==
    /\ Len(calls) < MaxCalls
    /\ \E b \in TraceHeaders :
        /\ meta' = merge_trace_blob_into_meta(b, meta)
        /\ calls' = Append(calls, Call("merge_trace_blob_into_meta", b))
    /\ UNCHANGED <<parser_vars, worker_vars, call_vars, acdb_vars, gui_vars>>

\* enrich_meta_from_hits(meta, segments)
CallEnrich ==
    /\ Len(calls) < MaxCalls
    /\ \E segs \in HitSegments :
        /\ meta' = enrich_meta_from_hits(meta, segs)
        /\ calls' = Append(calls, Call("enrich_meta_from_hits", [segments |-> segs]))
    /\ UNCHANGED <<parser_vars, worker_vars, call_vars, acdb_vars, gui_vars>>

\* The merge of an OpenSky result, as Worker.run does it
CallMergeOpenSky ==
    /\ Len(calls) < MaxCalls
    /\ \E answer \in OpenSkyAnswers :
        /\ meta' = merge_opensky(fetch_opensky_metadata("abc123", answer), meta)
        /\ calls' = Append(calls, Call("merge_opensky", answer))
    /\ UNCHANGED <<parser_vars, worker_vars, call_vars, acdb_vars, gui_vars>>

\* The merge of a Planespotters result, as Worker.run does it
CallMergePlanespotters ==
    /\ Len(calls) < MaxCalls
    /\ \E answer \in PlanespottersAnswers :
        /\ LET res == fetch_planespotters_photo_and_reg(answer)
           IN  meta' = merge_planespotters(res[1], res[2], meta)
        /\ calls' = Append(calls, Call("merge_planespotters", answer))
    /\ UNCHANGED <<parser_vars, worker_vars, call_vars, acdb_vars, gui_vars>>

NextMerge ==
    \/ CallMergeOpenSky
    \/ CallMergePlanespotters
    \/ CallMergeAdsbx
    \/ CallMergeTraceBlob
    \/ CallEnrich

SpecMerge == InitMerge /\ [][NextMerge]_vars

---------------------------------------------------------------------------
(* Properties of the merge functions *)

WriteOnceFields ==
    {"registration", "type", "type_name", "owner", "manufacturer", "model",
     "country", "photo_url", "flags", "description"}

\* C1: a merge call leaves every scalar field that was non-null before the
\* call exactly as it was.
C1_ScalarFieldsAreWriteOnce ==
    [][\A f \in WriteOnceFields : meta[f] # None => meta'[f] = meta[f]]_vars

---------------------------------------------------------------------------
(* The queries the worker is run on, and what its collaborators answer *)

MaxDays == 2
MaxDayRows == 3

\* What a day of the range gives: no trace file, a file that cannot be read
\* or parsed, or a payload.
NoTrace == [got |-> "none"]
Unreadable == [got |-> "error"]
Parsed(b) == [got |-> "blob", blob |-> b]

\* The payload of day d: its base timestamp tells the days apart.
DayBlob(d, header, rows) ==
    DictV(header @@ [timestamp |-> IntV(100 * d), trace |-> ListV(rows)])

\* A valid positional record at offset i, marked as a new leg or not.
TrackRow(marked, i) ==
    PosRow(IntV(i), FloatV(1), FloatV(2), IF marked THEN IntV(2) ELSE IntV(0))

\* Days of tracks: every sequence of marked and unmarked valid records, and a
\* few payloads with invalid, keyed and headerless records.
TrackDays(d) ==
    {Parsed(DayBlob(d, EmptyDict, [i \in DOMAIN marks |-> TrackRow(marks[i], i)])) :
        marks \in SeqsUpTo(BOOLEAN, MaxDayRows)}
    \cup {NoTrace, Unreadable,
          Parsed(DayBlob(d, EmptyDict,
                 <<TrackRow(FALSE, 1), PosRow(IntV(2), None, FloatV(2), IntV(2)),
                   TrackRow(FALSE, 3)>>)),
          Parsed(DayBlob(d, EmptyDict,
                 <<DictV([lat |-> FloatV(1), lon |-> FloatV(2), time |-> IntV(100 * d + 1)]),
                   StrV("junk"), TrackRow(FALSE, 3)>>)),
          Parsed(ListV(<<TrackRow(FALSE, d), TrackRow(TRUE, d)>>)),
          Parsed(DayBlob(d, EmptyDict,
                 <<PosRow(IntV(1), None, FloatV(2), IntV(2)), StrV("junk")>>))}

\* The header of day d's payload, each day with values of its own.
DayHeaders(d) ==
    {EmptyDict,
     [r |-> StrV("N4" \o ToString(d)), ownOp |-> StrV("OWN4" \o ToString(d))],
     [t |-> StrV("C172")]}

\* Days whose payload has identity attributes in its header and in its hit.
MetaDays(d) ==
    {Parsed(DayBlob(d, header, <<TrackRow(FALSE, 1)>>)) : header \in DayHeaders(d)}
    \cup {Parsed(DayBlob(d, header,
              <<ListV(<<IntV(1), FloatV(1), FloatV(2), None, None, None, IntV(0), None,
                        DictV([r |-> StrV("N6" \o ToString(d)),
                               ownOp |-> StrV("OWN6" \o ToString(d)),
                               t |-> StrV("PC12")])>>)>>)) :
          header \in DayHeaders(d)}
    \cup {NoTrace}

\* What load_adsbx_acdb returns: {} when the database cannot be loaded, else
\* the list of its records.
AcdbAnswers ==
    {DictV(EmptyDict),
     ListV(<<DictV([icao |-> StrV("FFFFFF"), reg |-> StrV("N9")])>>),
     ListV(<<DictV([icao |-> StrV("ABC123"), reg |-> StrV("N3"),
                    ownop |-> StrV("OWN3")])>>),
     ListV(<<DictV([icao |-> StrV("FFFFFF"), reg |-> StrV("N9")]),
             DictV([icao |-> StrV("abc123"), manufacturer |-> StrV("Gulfstream")])>>),
     ListV(<<StrV("junk"), DictV([hex |-> StrV("abc123"), icaotype |-> StrV("b738")])>>)}

\* A collaborator that has not been asked yet.
NotAsked == [k |-> "not asked"]

\* A query: the worker's arguments, and the answers of the collaborators as
\* far as they have been asked. Queries of kind "meta" have every source of
\* metadata answer and short days, those of kind "track" have no metadata and
\* long days, those of kind "export" choose among the export formats, those
\* of kind "gui" are made from the window.
Query(kind, ndays, kml, csv, json) ==
    [kind |-> kind, hex |-> "abc123", ndays |-> ndays,
     do_kml |-> kml, do_csv |-> csv, do_json |-> json,
     opensky |-> NotAsked, planespotters |-> NotAsked, acdb |-> NotAsked,
     days |-> <<>>]

\* daterange(start, end) has at least one day; run_query asks for at least
\* one export format.
Queries ==
    {Query("track", ndays, FALSE, FALSE, TRUE) : ndays \in 1..MaxDays}
    \cup {Query("meta", ndays, FALSE, FALSE, TRUE) : ndays \in 1..MaxDays}
    \cup {Query("export", 1, fmt[1], fmt[2], fmt[3]) :
            fmt \in (BOOLEAN \X BOOLEAN \X BOOLEAN) \ {<<FALSE, FALSE, FALSE>>}}

OpenSkyFor(q) == IF q.kind = "meta" THEN OpenSkyAnswers ELSE {[ok |-> FALSE]}

PlanespottersFor(q) == IF q.kind = "meta" THEN PlanespottersAnswers ELSE {[ok |-> FALSE]}

AcdbFor(q) == IF q.kind = "meta" THEN AcdbAnswers ELSE {DictV(EmptyDict)}

\* Days after the second of a range: no trace, a trace of one record, and a
\* trace of two of which the first is marked.
LaterDays(d) ==
    {NoTrace,
     Parsed(DayBlob(d, [r |-> StrV("N4" \o ToString(d))], <<TrackRow(FALSE, 1)>>)),
     Parsed(DayBlob(d, EmptyDict, <<TrackRow(TRUE, 1), TrackRow(FALSE, 2)>>))}

\* The days of a query made from the window: no trace, or a payload with a
\* registration and a type in its header and one record.
GuiDays(d) ==
    {NoTrace,
     Parsed(DayBlob(d, [r |-> StrV("N4" \o ToString(d)), t |-> StrV("C172")],
                    <<TrackRow(FALSE, 1)>>))}

\* What the fetch of day d of the query may give. The first two days of a
\* range take every payload of the query's kind.
DaysFor(q, d) ==
    CASE q.kind = "export" -> {Parsed(DayBlob(d, EmptyDict, <<TrackRow(FALSE, 1)>>))}
      [] q.kind = "gui" -> GuiDays(d)
      [] d > 2 -> LaterDays(d)
      [] q.kind = "meta" -> MetaDays(d)
      [] q.kind = "track" -> TrackDays(d)

---------------------------------------------------------------------------
(* Worker.run *)

\* Mutant of extend: the day's first segment continues the track's last.
extend_joining(all, segs) ==
    IF all = <<>> \/ segs = <<>>
    THEN all \o segs
    ELSE SubSeq(all, 1, Len(all) - 1) \o <<all[Len(all)] \o segs[1]>> \o Tail(segs)

\* all_segments.extend(segments)
extend(all, segs) == all \o segs

Terminal(sig, msg) == [sig |-> sig, msg |-> msg]

\* Lines 1053-1063: meta_obj is created and the OpenSky result merged.
RunOpenSky ==
    /\ pc = "opensky"
    /\ \E answer \in OpenSkyFor(query) :
        /\ query' = [query EXCEPT !.opensky = answer]
        /\ meta_obj' = merge_opensky(fetch_opensky_metadata(query.hex, answer),
                                     AircraftMeta(query.hex))
    /\ pc' = "planespotters"
    /\ UNCHANGED <<all_segments, day, stop_flag, emitted, written, invoked, cards,
                   parser_vars, harness_vars, call_vars, acdb_vars, gui_vars>>

\* Lines 1065-1072: the Planespotters result is merged.
RunPlanespotters ==
    /\ pc = "planespotters"
    /\ \E answer \in PlanespottersFor(query) :
        /\ query' = [query EXCEPT !.planespotters = answer]
        /\ LET res == fetch_planespotters_photo_and_reg(answer)
           IN  meta_obj' = merge_planespotters(res[1], res[2], meta_obj)
    /\ pc' = "acdb"
    /\ UNCHANGED <<all_segments, day, stop_flag, emitted, written, invoked, cards,
                   parser_vars, harness_vars, call_vars, acdb_vars, gui_vars>>

\* Lines 1074-1093: the database record is merged, the type mapped, the first
\* card_update emitted, and the loop over the days set up.
RunAcdb ==
    /\ pc = "acdb"
    /\ \E db \in AcdbFor(query) :
        /\ query' = [query EXCEPT !.acdb = db]
        /\ meta_obj' = apply_type_mapping(merge_acdb(db, query.hex, meta_obj))
    /\ cards' = cards + 1
    /\ all_segments' = <<>>
    /\ day' = 1
    /\ pc' = "days"
    /\ UNCHANGED <<stop_flag, emitted, written, invoked,
                   parser_vars, harness_vars, call_vars, acdb_vars, gui_vars>>

\* Mutant of RunDayStopped: the stop is reported as "No data".
RunDayStoppedAsNoData ==
    /\ pc = "days"
    /\ day <= query.ndays
    /\ stop_flag
    /\ emitted' = Append(emitted, Terminal("finished_err", "No data"))
    /\ pc' = "done"
    /\ UNCHANGED <<query, meta_obj, all_segments, day, stop_flag, written, invoked, cards,
                   parser_vars, harness_vars, call_vars, acdb_vars, gui_vars>>

\* Lines 1097-1100: a stop was requested; the run ends before the next day.
RunDayStopped ==
    /\ pc = "days"
    /\ day <= query.ndays
    /\ stop_flag
    /\ emitted' = Append(emitted, Terminal("finished_err", "Stopped"))
    /\ pc' = "done"
    /\ UNCHANGED <<query, meta_obj, all_segments, day, stop_flag, written, invoked, cards,
                   parser_vars, harness_vars, call_vars, acdb_vars, gui_vars>>

\* Lines 1102-1119: the day's trace is not there (fetch_trace_for_day returned
\* None) or cannot be read or parsed; the day is skipped.
RunDaySkipped ==
    /\ pc = "days"
    /\ day <= query.ndays
    /\ ~stop_flag
    /\ \E answer \in DaysFor(query, day) :
        /\ answer.got # "blob"
        /\ query' = [query EXCEPT !.days = Append(@, answer)]
    /\ day' = day + 1
    /\ UNCHANGED <<pc, meta_obj, all_segments, stop_flag, emitted, written, invoked, cards,
                   parser_vars, harness_vars, call_vars, acdb_vars, gui_vars>>

\* Mutant of RunDayFatal: the exception ends run() without a signal.
RunDayFatalSilently ==
    /\ pc = "days"
    /\ day <= query.ndays
    /\ ~stop_flag
    /\ pc' = "done"
    /\ UNCHANGED <<query, meta_obj, all_segments, day, stop_flag, emitted, written,
                   invoked, cards, parser_vars, harness_vars, call_vars, acdb_vars, gui_vars>>

\* Lines 1104-1106 and 1198-1200: fetch_trace_for_day raises, its cache
\* directory cannot be made or the trace cannot be saved (lines 578 and
\* 599-600); run() logs "[fatal]" and emits finished_err with the exception's
\* text.
RunDayFatal ==
    /\ pc = "days"
    /\ day <= query.ndays
    /\ ~stop_flag
    /\ emitted' = Append(emitted, Terminal("finished_err", "error"))
    /\ pc' = "done"
    /\ UNCHANGED <<query, meta_obj, all_segments, day, stop_flag, written, invoked, cards,
                   parser_vars, harness_vars, call_vars, acdb_vars, gui_vars>>

\* Lines 1102-1131: the day's payload is merged into meta_obj, card_update is
\* emitted, and the day's segments are appended to all_segments.
RunDayParsed ==
    /\ pc = "days"
    /\ day <= query.ndays
    /\ ~stop_flag
    /\ \E answer \in DaysFor(query, day) :
        /\ answer.got = "blob"
        /\ query' = [query EXCEPT !.days = Append(@, answer)]
        /\ meta_obj' = apply_type_mapping(
                           merge_trace_blob_into_meta(answer.blob, meta_obj))
        /\ all_segments' = extend(all_segments, extract_hits(answer.blob))
    /\ cards' = cards + 1
    /\ day' = day + 1
    /\ UNCHANGED <<pc, stop_flag, emitted, written, invoked,
                   parser_vars, harness_vars, call_vars, acdb_vars, gui_vars>>

\* Mutant of RunNoData: the run ends as a success.
RunNoDataAsSuccess ==
    /\ pc = "days"
    /\ day > query.ndays
    /\ all_segments = <<>>
    /\ emitted' = Append(emitted, Terminal("finished_ok", ""))
    /\ pc' = "done"
    /\ UNCHANGED <<query, meta_obj, all_segments, day, stop_flag, written, invoked, cards,
                   parser_vars, harness_vars, call_vars, acdb_vars, gui_vars>>

\* Lines 1133-1136: no day gave a point.
RunNoData ==
    /\ pc = "days"
    /\ day > query.ndays
    /\ all_segments = <<>>
    /\ emitted' = Append(emitted, Terminal("finished_err", "No data"))
    /\ pc' = "done"
    /\ UNCHANGED <<query, meta_obj, all_segments, day, stop_flag, written, invoked, cards,
                   parser_vars, harness_vars, call_vars, acdb_vars, gui_vars>>

\* Lines 1138-1141: the metadata is enriched from the hits and card_update is
\* emitted.
RunEnrich ==
    /\ pc = "days"
    /\ day > query.ndays
    /\ all_segments # <<>>
    /\ meta_obj' = apply_type_mapping(enrich_meta_from_hits(meta_obj, all_segments))
    /\ cards' = cards + 1
    /\ pc' = "export"
    /\ UNCHANGED <<query, all_segments, day, stop_flag, emitted, written, invoked,
                   parser_vars, harness_vars, call_vars, acdb_vars, gui_vars>>

\* Mutant of export_meta: the dict has no owner.
export_meta_without_owner(m) ==
    DictV([icao         |-> StrV(lower_hex(m.hex.s)),
           registration |-> m.registration,
           type         |-> m.type,
           type_name    |-> m.type_name,
           manufacturer |-> m.manufacturer,
           model        |-> m.model,
           description  |-> m.description])

\* "Build meta dict for exporters", lines 1144-1153
export_meta(m) ==
    DictV([icao         |-> StrV(lower_hex(m.hex.s)),
           registration |-> m.registration,
           type         |-> m.type,
           type_name    |-> m.type_name,
           owner        |-> m.owner,
           manufacturer |-> m.manufacturer,
           model        |-> m.model,
           description  |-> m.description])

\* The export formats the query enables.
ExportsEnabled(q) ==
    {f \in {"kml", "csv", "json"} :
        \/ f = "kml" /\ q.do_kml
        \/ f = "csv" /\ q.do_csv
        \/ f = "json" /\ q.do_json}

\* A file written by an exporter: its format and what the exporter was given.
export_file(format, segs, hex_code, mt) ==
    [format |-> format, segments |-> segs, hex_code |-> hex_code, meta |-> mt]

\* The content of a file written by an exporter.
file_content(file) ==
    CASE file.format = "kml" -> build_kml(file.segments, file.hex_code, file.meta)
      [] file.format = "csv" -> build_csv(file.segments, file.hex_code, file.meta)
      [] file.format = "json" -> build_json(file.segments, file.hex_code, file.meta)

\* The exporters in the order run() calls them, lines 1169-1194.
ExportOrder == <<"kml", "csv", "json">>

\* The formats of the sequence up to and including the first one that raises.
RECURSIVE until_raised(_, _)
until_raised(formats, raised) ==
    IF formats = <<>> THEN <<>>
    ELSE IF Head(formats) \in raised THEN <<Head(formats)>>
    ELSE <<Head(formats)>> \o until_raised(Tail(formats), raised)

\* Mutant of RunExports: an exporter that raises ends the run; the later
\* exporters are not called and finished_err is emitted.
RunExportsAbortingOnFailure ==
    /\ pc = "export"
    /\ \E raised \in SUBSET ExportsEnabled(query) :
        /\ invoked' = until_raised(
                          SelectSeq(ExportOrder, LAMBDA f : f \in ExportsEnabled(query)),
                          raised)
        /\ written' = {export_file(invoked'[i], all_segments, query.hex,
                                   export_meta(meta_obj)) :
                          i \in {j \in DOMAIN invoked' : invoked'[j] \notin raised}}
        /\ emitted' = Append(emitted,
                             IF raised = {} THEN Terminal("finished_ok", "")
                             ELSE Terminal("finished_err", "error"))
    /\ pc' = "done"
    /\ UNCHANGED <<query, meta_obj, all_segments, day, stop_flag, cards,
                   parser_vars, harness_vars, call_vars, acdb_vars, gui_vars>>

\* Lines 1143-1196: each enabled exporter is called in turn; one that raises
\* writes no file and is logged. Then finished_ok is emitted.
RunExports ==
    /\ pc = "export"
    /\ \E raised \in SUBSET ExportsEnabled(query) :
        /\ invoked' = SelectSeq(ExportOrder, LAMBDA f : f \in ExportsEnabled(query))
        /\ written' = {export_file(format, all_segments, query.hex, export_meta(meta_obj)) :
                          format \in ExportsEnabled(query) \ raised}
    /\ emitted' = Append(emitted, Terminal("finished_ok", ""))
    /\ pc' = "done"
    /\ UNCHANGED <<query, meta_obj, all_segments, day, stop_flag, cards,
                   parser_vars, harness_vars, call_vars, acdb_vars, gui_vars>>

\* MainWindow.stop_query while the worker runs: Worker.stop().
StopQuery ==
    /\ pc \notin {"idle", "done"}
    /\ stop_flag' = TRUE
    /\ UNCHANGED <<query, pc, meta_obj, all_segments, day, emitted, written, invoked, cards,
                   parser_vars, harness_vars, call_vars, acdb_vars, gui_vars>>

\* The worker has been constructed and started; run() has not yet acted.
Init ==
    /\ query \in Queries
    /\ pc = "opensky"
    /\ meta_obj = None
    /\ all_segments = <<>>
    /\ day = 0
    /\ stop_flag = FALSE
    /\ emitted = <<>>
    /\ written = {}
    /\ invoked = <<>>
    /\ cards = 0
    /\ IdleParser
    /\ IdleHarness
    /\ IdleAcdb
    /\ IdleWindow

Next ==
    \/ RunOpenSky
    \/ RunPlanespotters
    \/ RunAcdb
    \/ RunDayStopped
    \/ RunDaySkipped
    \/ RunDayParsed
    \/ RunDayFatal
    \/ RunNoData
    \/ RunEnrich
    \/ RunExports
    \/ StopQuery

Spec == Init /\ [][Next]_vars

\* A step of the worker thread: run() has not returned and moves on. Every
\* action of run() changes pc or day, and StopQuery changes neither.
RunStep ==
    /\ pc # "done"
    /\ pc' \in {"planespotters", "acdb", "days", "export", "done"}
    /\ day' \in 0..(MaxDays + 1)
    /\ pc' # pc \/ day' # day

\* The worker thread, once started, runs until run() returns: nothing in
\* run() waits on the main thread, and every request it makes has a timeout.
SpecFair == Init /\ [][Next]_vars /\ WF_<<pc, day>>(RunStep)

---------------------------------------------------------------------------
(* Properties of Worker.run: the track *)

\* The loop over the days has ended without a stop: the track is built.
TrackBuilt == pc \in {"days", "export", "done"} /\ day > query.ndays

\* A two-day query whose first day gave three valid unmarked positional
\* records and whose second day gave two valid positional records, only the
\* second of them marked.
C3_Case ==
    /\ TrackBuilt
    /\ query.ndays = 2
    /\ \A d \in 1..2 : query.days[d].got = "blob"
    /\ LET day1 == Rows(query.days[1].blob)
           day2 == Rows(query.days[2].blob)
       IN  /\ Len(day1) = 3 /\ AllPositionalValid(day1) /\ NumMarked(day1) = 0
           /\ Len(day2) = 2 /\ AllPositionalValid(day2)
           /\ ~Marked(day2[1]) /\ Marked(day2[2])

\* The payload b with rows for its records.
WithRows(b, rows) ==
    IF is_dict(b)
    THEN DictV([timestamp |-> dict_get(b, "timestamp"), trace |-> ListV(rows)])
    ELSE ListV(rows)

\* The hit h is the one the parser makes of record i of the payload b.
IsHitOf(h, b, i) == Flatten(extract_hits(WithRows(b, <<Rows(b)[i]>>))) = <<h>>

\* C3 as stated: in that case the track has exactly 2 segments, the first of
\* 4 hits (the 3 of day 1, then the first of day 2), the second of 1 hit (the
\* marked hit).
C3_TwoSegmentsJoinedAcrossDays ==
    C3_Case =>
        /\ Len(all_segments) = 2
        /\ Len(all_segments[1]) = 4
        /\ Len(all_segments[2]) = 1

\* C3 amended: in that case the track has exactly 3 segments: the 3 hits of
\* day 1, the first hit of day 2 alone, and the marked hit alone. The segment
\* open at the end of a day is closed there and never joined with the next
\* day's hits.
C3_ThreeSegmentsSplitAtDayEnd ==
    C3_Case =>
        /\ Len(all_segments) = 3
        /\ Len(all_segments[1]) = 3
        /\ \A i \in 1..3 : IsHitOf(all_segments[1][i], query.days[1].blob, i)
        /\ Len(all_segments[2]) = 1
        /\ IsHitOf(all_segments[2][1], query.days[2].blob, 1)
        /\ Len(all_segments[3]) = 1
        /\ IsHitOf(all_segments[3][1], query.days[2].blob, 2)

\* The run of such a query has come to its exports with a track of 3 segments.
C3_Witness ==
    /\ C3_Case
    /\ pc = "export"
    /\ Len(all_segments) = 3

RECURSIVE AcceptedFrom(_, _)
\* The hits of the records i.. of the payload b that the parser accepts, each
\* record parsed on its own, in the order of the payload.
AcceptedFrom(b, i) ==
    IF i > Len(Rows(b))
    THEN <<>>
    ELSE Flatten(extract_hits(WithRows(b, <<Rows(b)[i]>>))) \o AcceptedFrom(b, i + 1)

RECURSIVE AcceptedOfDays(_)
\* The accepted records of the days processed, in the order of the days.
AcceptedOfDays(days) ==
    IF days = <<>>
    THEN <<>>
    ELSE (IF Head(days).got = "blob" THEN AcceptedFrom(Head(days).blob, 1) ELSE <<>>)
         \o AcceptedOfDays(Tail(days))

\* The segments of before are the first segments of after, unchanged.
IsPrefix(before, after) ==
    /\ Len(before) <= Len(after)
    /\ \A i \in 1..Len(before) : after[i] = before[i]

\* C8: the hits of the track, in segment order, are exactly the accepted
\* records in the order the days were processed and, within a day, in the
\* order of the payload; and every step leaves the segments already in the
\* track as they are, in their places.
C8_OrderPreserved ==
    /\ [](Flatten(all_segments) = AcceptedOfDays(query.days))
    /\ [][IsPrefix(all_segments, all_segments')]_vars

\* Two days have been processed, the first with a rejected record between two
\* accepted ones, the second with a marked record, and the track has their
\* four hits in three segments or more.
C8_Witness ==
    /\ TrackBuilt
    /\ Len(query.days) = 2
    /\ \A d \in 1..2 : query.days[d].got = "blob"
    /\ Len(Rows(query.days[1].blob)) = 3
    /\ Len(AcceptedFrom(query.days[1].blob, 1)) = 2
    /\ NumMarked(Rows(query.days[2].blob)) >= 1
    /\ Len(Flatten(all_segments)) >= 4
    /\ Len(all_segments) >= 3

---------------------------------------------------------------------------
(* Properties of Worker.run: the order of the sources *)

\* A non-empty value.
Supplied(v) == v.k = "str" /\ v.s # ""

\* The value the mapping d has under the first of names it has a non-empty
\* value for.
Named(d, names) ==
    IF d.k # "dict"
    THEN None
    ELSE LET has == {i \in 1..Len(names) :
                        names[i] \in DOMAIN d.d /\ Supplied(d.d[names[i]])}
         IN  IF has = {}
             THEN None
             ELSE d.d[names[CHOOSE i \in has : \A j \in has : i <= j]]

\* The names of a field in the sources.
Names(field) ==
    CASE field = "registration" -> <<"registration", "reg", "r">>
      [] field = "owner" -> <<"owner", "ownop", "ownOp">>
      [] field = "type" -> <<"icaoType", "icaotype", "t">>

\* (1) The flight-data API's result.
ApiValue(field) ==
    IF query.opensky = NotAsked
    THEN None
    ELSE fetch_opensky_metadata(query.hex, query.opensky)[field]

\* (2) The photo service's result: a registration only.
PhotoValue(field) ==
    IF query.planespotters = NotAsked \/ field # "registration"
    THEN None
    ELSE fetch_planespotters_photo_and_reg(query.planespotters)[2]

\* (3) The aircraft's record of the bulk database.
DbRecord ==
    IF query.acdb = NotAsked THEN None ELSE find_acdb_record(query.acdb, query.hex)

DbValue(field) == Named(DbRecord, Names(field))

\* (4) The headers of the days' payloads, in the order of the days.
HeaderValues(field) ==
    [d \in 1..Len(query.days) |->
        IF query.days[d].got = "blob"
        THEN Named(query.days[d].blob, Names(field))
        ELSE None]

\* (5) The attributes embedded in the hits of the track, in its order.
HitValues(field) ==
    [i \in 1..Len(Flatten(all_segments)) |->
        IF "ac_data" \in DOMAIN Flatten(all_segments)[i]
        THEN Named(Flatten(all_segments)[i].ac_data, Names(field))
        ELSE None]

\* The first non-empty value of vals, None if it has none.
Earliest(vals) ==
    LET has == {i \in 1..Len(vals) : Supplied(vals[i])}
    IN  IF has = {} THEN None ELSE vals[CHOOSE i \in has : \A j \in has : i <= j]

\* The text v as apply_type_mapping normalises a type.
Normalised(v) == IF v = None THEN None ELSE StrV(upper(strip(v.s)))

\* All days are processed and the hits' attributes merged.
Reconciled == pc = "export"

DbMakeAndModel ==
    LET man == Named(DbRecord, <<"manufacturer">>)
        mdl == Named(DbRecord, <<"model">>)
    IN  IF Supplied(man) /\ Supplied(mdl) THEN StrV(man.s \o " " \o mdl.s)
        ELSE IF Supplied(man) THEN man
        ELSE mdl

---------------------------------------------------------------------------
(* Properties of the merge functions: callsigns *)

\* The callsigns of the meta m, as a sequence and as a set.
CallsignSeq(m) == IF m.callsigns = None THEN <<>> ELSE m.callsigns.items

CallsignSet(m) == {CallsignSeq(m)[i] : i \in 1..Len(CallsignSeq(m))}

\* The names a callsign goes by in a trace header and in a hit's attributes,
\* in the order the header is searched.
CallsignNames == <<"flight", "call", "callsign", "cs">>

\* The mapping d has a callsign string under name that is not blank.
HasCallsign(d, name) ==
    /\ name \in DOMAIN d.d
    /\ d.d[name].k = "str"
    /\ strip(d.d[name].s) # ""

\* The callsign strings the mapping d supplies, trimmed.
CallsignsOf(d) ==
    IF d.k # "dict"
    THEN {}
    ELSE {StrV(strip(d.d[CallsignNames[i]].s)) :
             i \in {j \in 1..Len(CallsignNames) : HasCallsign(d, CallsignNames[j])}}

\* The one callsign a trace header contributes: that under the first of the
\* names it has one under.
FirstCallsignOf(d) ==
    IF d.k # "dict"
    THEN {}
    ELSE LET has == {j \in 1..Len(CallsignNames) : HasCallsign(d, CallsignNames[j])}
         IN  IF has = {}
             THEN {}
             ELSE {StrV(strip(d.d[CallsignNames[CHOOSE j \in has :
                                                   \A l \in has : j <= l]].s))}

\* The callsigns of the hits' attributes of the segments segs.
CallsignsOfHits(segs) ==
    UNION {CallsignsOf(Flatten(segs)[i].ac_data) :
              i \in {j \in 1..Len(Flatten(segs)) : "ac_data" \in DOMAIN Flatten(segs)[j]}}

NoDuplicateCallsign ==
    \A i, j \in 1..Len(CallsignSeq(meta)) :
        CallsignSeq(meta)[i] = CallsignSeq(meta)[j] => i = j

CallsignsOnlyGrow == CallsignSet(meta) \subseteq CallsignSet(meta')

\* Every callsign of the hits merged so far is in meta.callsigns.
HitCallsignsKept ==
    \A c \in 1..Len(calls) :
        calls[c].fn = "enrich_meta_from_hits"
            => CallsignsOfHits(calls[c].arg.segments) \subseteq CallsignSet(meta)

\* C11 as stated: meta.callsigns has no duplicate, every callsign in it before
\* a call is in it after the call, and every non-empty callsign string of a
\* merged trace header or hit is in it.
C11_CallsignsAccumulate ==
    /\ [](/\ NoDuplicateCallsign
          /\ HitCallsignsKept
          /\ \A c \in 1..Len(calls) :
                 calls[c].fn = "merge_trace_blob_into_meta"
                     => CallsignsOf(calls[c].arg) \subseteq CallsignSet(meta))
    /\ [][CallsignsOnlyGrow]_vars

\* C11 amended: meta.callsigns has no duplicate, only grows, and has every
\* non-blank callsign string (trimmed) of a merged hit's attributes; of a
\* merged trace header it has one callsign, that under the first of flight,
\* call, callsign, cs the header has a non-blank string under.
C11_CallsignsAccumulateOnePerHeader ==
    /\ [](/\ NoDuplicateCallsign
          /\ HitCallsignsKept
          /\ \A c \in 1..Len(calls) :
                 calls[c].fn = "merge_trace_blob_into_meta"
                     => FirstCallsignOf(calls[c].arg) \subseteq CallsignSet(meta))
    /\ [][CallsignsOnlyGrow]_vars

\* A header with two callsigns has been merged, then hits with two callsigns
\* of which one was known: meta.callsigns has two, the header's second not
\* among them.
C11_Witness ==
    /\ Len(calls) = 2
    /\ calls[1].fn = "merge_trace_blob_into_meta"
    /\ Cardinality(CallsignsOf(calls[1].arg)) = 2
    /\ calls[2].fn = "enrich_meta_from_hits"
    /\ CallsignsOfHits(calls[2].arg.segments) \cap FirstCallsignOf(calls[1].arg) # {}
    /\ Cardinality(CallsignsOfHits(calls[2].arg.segments)) = 2
    /\ Len(CallsignSeq(meta)) = 2
    /\ ~(CallsignsOf(calls[1].arg) \subseteq CallsignSet(meta))

---------------------------------------------------------------------------
(* Properties of the merge functions: flags *)

\* The labels of the bitmask values 0..15: Military (1), Interesting (2),
\* PIA (4), LADD (8), in this order, joined by ", ".
LabelTable ==
    <<"Military", "Interesting", "Military, Interesting",
      "PIA", "Military, PIA", "Interesting, PIA", "Military, Interesting, PIA",
      "LADD", "Military, LADD", "Interesting, LADD", "Military, Interesting, LADD",
      "PIA, LADD", "Military, PIA, LADD", "Interesting, PIA, LADD",
      "Military, Interesting, PIA, LADD">>

\* The bitmask value v is an integer of 0..15, as a number or as its decimal
\* text; BitmaskNumber is that integer.
IsBitmask(v) ==
    \/ v.k = "int" /\ v.n \in 0..15
    \/ v.k = "str" /\ \E n \in 0..15 : ToString(n) = v.s

BitmaskNumber(v) ==
    IF v.k = "int" THEN v.n ELSE CHOOSE n \in 0..15 : ToString(n) = v.s

\* The label string of the bitmask value v, None when it has no label.
Decoded(v) ==
    IF IsBitmask(v) /\ BitmaskNumber(v) > 0
    THEN StrV(LabelTable[BitmaskNumber(v)])
    ELSE None

\* The dbFlags bitmask of the mapping d, None without one.
BitmaskOf(d) == IF d.k = "dict" /\ "dbFlags" \in DOMAIN d.d THEN d.d["dbFlags"] ELSE None

\* The attributes of the hits of segs that have some, in order.
AttributesOf(segs) ==
    LET with == SelectSeq(Flatten(segs), LAMBDA h : "ac_data" \in DOMAIN h)
    IN  [i \in 1..Len(with) |-> with[i].ac_data]

\* The first of vals that is not None, None if there is none.
FirstNonNull(vals) ==
    LET has == {i \in 1..Len(vals) : vals[i] # None}
    IN  IF has = {} THEN None ELSE vals[CHOOSE i \in has : \A j \in has : i <= j]

\* The first non-null bitmask the source of the call c supplies.
CallBitmask(c) ==
    CASE c.fn \in {"merge_adsbx_record_into_meta", "merge_trace_blob_into_meta"} ->
             BitmaskOf(c.arg)
      [] c.fn = "enrich_meta_from_hits" ->
             FirstNonNull([i \in 1..Len(AttributesOf(c.arg.segments)) |->
                              BitmaskOf(AttributesOf(c.arg.segments)[i])])
      [] OTHER -> None

\* C12 as stated: from the first merge, in arrival order, whose source
\* supplies a non-null dbFlags bitmask, meta.flags is the decoded label string
\* of that bitmask, whatever later sources supply.
C12_FlagsFixedByFirstBitmask ==
    LET first == FirstNonNull([c \in 1..Len(calls) |-> CallBitmask(calls[c])])
    IN  first # None => meta.flags = Decoded(first)

\* The military attribute of a hit's attributes, as a flags text.
MilitaryOf(d) ==
    IF "mil" \in DOMAIN d.d /\ d.d["mil"].k = "str" /\ strip(d.d["mil"].s) # ""
    THEN StrV("Military=" \o strip(d.d["mil"].s))
    ELSE None

\* The flags text the source of the call c yields: the label string of its
\* bitmask or, of a hit whose bitmask has no label, its military attribute.
CallFlags(c) ==
    CASE c.fn \in {"merge_adsbx_record_into_meta", "merge_trace_blob_into_meta"} ->
             Decoded(BitmaskOf(c.arg))
      [] c.fn = "enrich_meta_from_hits" ->
             FirstNonNull([i \in 1..Len(AttributesOf(c.arg.segments)) |->
                 FirstNonNull(<<Decoded(BitmaskOf(AttributesOf(c.arg.segments)[i])),
                                MilitaryOf(AttributesOf(c.arg.segments)[i])>>)])
      [] OTHER -> None

\* C12 amended: meta.flags is fixed by the first source, in arrival order,
\* that yields a flags text: the label string of its dbFlags bitmask when the
\* bitmask has a label or, of a hit whose bitmask is absent or has no label,
\* "Military=" and its military attribute. It is null until then, and no
\* later source changes it. A bitmask without a label (0, or no integer)
\* fixes nothing.
C12_FlagsFixedByFirstLabel ==
    meta # None =>
        meta.flags = FirstNonNull([c \in 1..Len(calls) |-> CallFlags(calls[c])])

\* A source with the bitmask 0 has been merged, then one whose bitmask has a
\* label: meta.flags is the label of the second.
C12_Witness ==
    /\ Len(calls) = 2
    /\ CallBitmask(calls[1]) # None
    /\ Decoded(CallBitmask(calls[1])) = None
    /\ CallFlags(calls[1]) = None
    /\ CallFlags(calls[2]) # None
    /\ meta.flags = Decoded(CallBitmask(calls[2]))

---------------------------------------------------------------------------
(* The function harness: one function applied to one input *)

\* The record of a call: the function, its arguments, its result.
Called(fn, args, result) == [fn |-> fn, args |-> args, result |-> result]

\* The values flags_from_dbflags is given: the bitmask values as int, as
\* float, with a fraction, and as decimal text; and values that are no number.
DbflagsValues ==
    {IntV(n) : n \in 0..MaxBitmask}
    \cup {FloatV(n) : n \in 0..MaxBitmask}
    \cup {HalfV(n) : n \in 0..MaxBitmask}
    \cup {StrV(ToString(n)) : n \in 0..MaxBitmask}
    \cup {None, BoolV(TRUE), BoolV(FALSE), StrV("junk"), StrV(""), StrV("9.0"),
          ListV(<<>>), DictV(EmptyDict)}

\* The metas apply_type_mapping is given: each field null or a text a merge
\* can have put there.
MappedMetas ==
    {[AircraftMeta("abc123") EXCEPT !.type = t, !.type_name = name,
                                    !.manufacturer = man, !.model = mdl,
                                    !.description = desc] :
        t \in {None, StrV("glf4"), StrV(" glf4 "), StrV("GLF4"), StrV("B738"),
               StrV("ZZZZ"), StrV(" ")},
        name \in {None, StrV("Earlier name")},
        man \in {None, StrV("Gulfstream")},
        mdl \in {None, StrV("G-iv")},
        desc \in {None, StrV("GULFSTREAM 4")}}

\* The records of the payloads whose tracks are exported: positional records
\* without and with kinematic fields and ac_data, keyed records with ac_data
\* that is a mapping and that is none.
ExportRows ==
    {ListV(<<IntV(1), FloatV(1), FloatV(2)>>),
     ListV(<<IntV(2), FloatV(3), IntV(4), IntV(300), FloatV(120), None, IntV(0), None,
             DictV([r |-> StrV("N1")])>>),
     ListV(<<IntV(3), BoolV(TRUE), HalfV(5), None, None, None, IntV(2), IntV(64),
             DictV([flight |-> StrV("CS1"), alt_geom |-> IntV(500),
                    nav_modes |-> ListV(<<StrV("tcas")>>)])>>),
     DictV([lat |-> FloatV(6), lon |-> FloatV(7), time |-> IntV(104),
            alt_ft |-> IntV(400), ac_data |-> DictV([t |-> StrV("B738"), r |-> None])]),
     DictV([lat |-> FloatV(8), lng |-> FloatV(9), ac_data |-> StrV("none")])}

\* The Tracks given to the exporters: what extract_hits makes of a payload.
ExportTracks ==
    {extract_hits(DictV([timestamp |-> IntV(100), trace |-> ListV(rows)])) :
        rows \in SeqsUpTo(ExportRows, MaxRows)}

\* The meta dicts given to the exporters: of an aircraft nothing is known of,
\* and of one whose fields are all set.
ExportMetas ==
    {export_meta(AircraftMeta("abc123")),
     export_meta([AircraftMeta("abc123") EXCEPT
                     !.registration = StrV("N1"), !.type = StrV("B738"),
                     !.type_name = StrV("Boeing 737-800"), !.owner = StrV("OWN1"),
                     !.manufacturer = StrV("Boeing"), !.model = StrV("737"),
                     !.description = StrV("BOEING 737"), !.country = StrV("US"),
                     !.flags = StrV("Military")])}

InitCall ==
    /\ called = NoCall
    /\ meta = None
    /\ calls = <<>>
    /\ IdleParser
    /\ IdleWorker
    /\ IdleAcdb
    /\ IdleWindow

\* flags_from_dbflags(dbflags)
CallFlagsFromDbflags ==
    /\ called = NoCall
    /\ \E dbflags \in DbflagsValues :
           called' = Called("flags_from_dbflags", <<dbflags>>, flags_from_dbflags(dbflags))
    /\ UNCHANGED <<parser_vars, harness_vars, worker_vars, acdb_vars, gui_vars>>

\* apply_type_mapping(meta)
CallApplyTypeMapping ==
    /\ called = NoCall
    /\ \E m \in MappedMetas :
           called' = Called("apply_type_mapping", <<m>>, apply_type_mapping(m))
    /\ UNCHANGED <<parser_vars, harness_vars, worker_vars, acdb_vars, gui_vars>>

\* build_kml(segments, hex_code, meta, out_path)
CallBuildKml ==
    /\ called = NoCall
    /\ \E segs \in ExportTracks, mt \in ExportMetas :
           called' = Called("build_kml", <<segs, "abc123", mt>>,
                            build_kml(segs, "abc123", mt))
    /\ UNCHANGED <<parser_vars, harness_vars, worker_vars, acdb_vars, gui_vars>>

\* build_csv(segments, hex_code, meta, out_path)
CallBuildCsv ==
    /\ called = NoCall
    /\ \E segs \in ExportTracks, mt \in ExportMetas :
           called' = Called("build_csv", <<segs, "abc123", mt>>,
                            build_csv(segs, "abc123", mt))
    /\ UNCHANGED <<parser_vars, harness_vars, worker_vars, acdb_vars, gui_vars>>

\* build_json(segments, hex_code, meta, out_path)
CallBuildJson ==
    /\ called = NoCall
    /\ \E segs \in ExportTracks, mt \in ExportMetas :
           called' = Called("build_json", <<segs, "abc123", mt>>,
                            build_json(segs, "abc123", mt))
    /\ UNCHANGED <<parser_vars, harness_vars, worker_vars, acdb_vars, gui_vars>>

NextCall ==
    \/ CallFlagsFromDbflags
    \/ CallApplyTypeMapping
    \/ CallBuildKml
    \/ CallBuildCsv
    \/ CallBuildJson

SpecCall == InitCall /\ [][NextCall]_vars

---------------------------------------------------------------------------
(* Properties of flags_from_dbflags *)

\* The value is an integer: an int (a bool is one), a float without a
\* fraction, or the decimal text of an integer.
IsInteger(v) ==
    \/ v.k \in {"int", "bool"}
    \/ v.k = "float" /\ "half" \notin DOMAIN v
    \/ v.k = "str" /\ \E n \in 0..MaxBitmask : ToString(n) = v.s

\* The integer the value is, and the integer of a number with its fraction
\* cut off.
IntegerOf(v) ==
    IF v.k = "str" THEN CHOOSE n \in 0..MaxBitmask : ToString(n) = v.s ELSE v.n

Decoding == called.fn = "flags_from_dbflags"

\* The label string of the bitmask value n of 0..15, None for 0.
LabelsOf(n) == IF n = 0 THEN None ELSE StrV(LabelTable[n])

\* C13 as stated: a bitmask value of 0..15 decodes to the labels of its set
\* bits joined by ", " in the order Military, Interesting, PIA, LADD (9 to
\* "Military, LADD"), 0 to null, and a value that is not an integer to null.
C13_DecodesBitmaskElseNull ==
    Decoding =>
        LET v == called.args[1]
        IN  /\ (IsInteger(v) /\ IntegerOf(v) \in 0..15)
                   => called.result = LabelsOf(IntegerOf(v))
            /\ ~IsInteger(v) => called.result = None

\* C13 amended: a bitmask value of 0..15, given as an integer, as a number
\* with a fraction (which is cut off) or as decimal text, decodes to the
\* labels of its set bits as stated, 0 to null; a value that is no number and
\* no decimal text of an integer decodes to null.
C13_DecodesTruncatedBitmaskElseNull ==
    Decoding =>
        LET v == called.args[1]
        IN  /\ ((IsInteger(v) \/ v.k = "float") /\ IntegerOf(v) \in 0..15)
                   => called.result = LabelsOf(IntegerOf(v))
            /\ ~(IsInteger(v) \/ v.k = "float") => called.result = None

\* 9.5 has been decoded, to "Military, LADD".
C13_Witness ==
    /\ Decoding
    /\ called.args[1] = HalfV(9)
    /\ called.result = StrV("Military, LADD")

---------------------------------------------------------------------------
(* Properties of apply_type_mapping *)

Mapping == called.fn = "apply_type_mapping"

\* The manufacturer and model of m that are not null, joined by a space.
MakeAndModel(m) ==
    IF m.manufacturer # None /\ m.model # None
    THEN StrV(m.manufacturer.s \o " " \o m.model.s)
    ELSE IF m.manufacturer # None THEN m.manufacturer ELSE m.model

\* The first applicable friendly name of m: the designator table's, the
\* manufacturer and model, the description; None if none applies.
FriendlyName(m) ==
    IF m.type # None /\ Normalised(m.type).s \in DOMAIN ICAO_TYPE_NAMES
    THEN StrV(ICAO_TYPE_NAMES[Normalised(m.type).s])
    ELSE IF m.manufacturer # None \/ m.model # None
    THEN MakeAndModel(m)
    ELSE m.description

\* C14: apply_type_mapping upper-cases a set type code; an unset type_name
\* becomes the first applicable of the table's name for the normalised code,
\* the join of the non-null manufacturer and model, and the description, and
\* stays null if none applies; a set type_name is left as it is.
C14_TypeNameResolution ==
    Mapping =>
        LET before == called.args[1]
            after == called.result
        IN  /\ after.type = Normalised(before.type)
            /\ before.type_name = None => after.type_name = FriendlyName(before)
            /\ before.type_name # None => after.type_name = before.type_name

\* A meta with the type " glf4 ", a manufacturer and no type_name has been
\* mapped: its type_name is the table's name of GLF4.
C14_Witness ==
    /\ Mapping
    /\ called.args[1].type = StrV(" glf4 ")
    /\ called.args[1].type_name = None
    /\ called.args[1].manufacturer # None
    /\ called.result.type = StrV("GLF4")
    /\ called.result.type_name = StrV("Gulfstream IV / G-IV")

---------------------------------------------------------------------------
(* Properties of the exporters: the attribute keys *)

\* The keys of a hit's ac_data mapping; none when it has no such mapping.
KeysOfHit(hit) ==
    IF "ac_data" \in DOMAIN hit /\ hit["ac_data"].k = "dict"
    THEN DOMAIN hit["ac_data"].d
    ELSE {}

\* The union of the keys of every hit's ac_data across all segments.
KeyUnion(segs) ==
    UNION {KeysOfHit(Flatten(segs)[i]) : i \in 1..Len(Flatten(segs))}

\* keys is the sorted, deduplicated list of the key union of segs.
IsKeyList(keys, segs) ==
    /\ {keys[i] : i \in 1..Len(keys)} = KeyUnion(segs)
    /\ \A i, j \in 1..Len(keys) : i < j => str_rank(keys[i]) < str_rank(keys[j])

\* The columns of a CSV header between the base columns and ac_data_json.
KeyColumns(header) == SubSeq(header, Len(base_header) + 1, Len(header) - 1)

\* The last n attributes of a point marker.
LastAttributes(point, n) ==
    SubSeq(point.extendeddata, Len(point.extendeddata) - n + 1, Len(point.extendeddata))

\* The names of a sequence of attributes.
AttributeNames(attrs) == [i \in 1..Len(attrs) |-> attrs[i][1]]

ExportedTrack == called.args[1]

---------------------------------------------------------------------------
(* Properties of the exporters: the JSON document *)

\* The point p of a parsed document is the hit: it has the hit's keys and,
\* under each, the hit's value; a time_iso is compared as text.
SamePoint(p, hit) ==
    /\ p.k = "dict"
    /\ DOMAIN p.d = DOMAIN hit
    /\ \A key \in DOMAIN hit :
           IF hit[key].k = "str" THEN p.d[key] = StrV(text(hit[key]))
           ELSE p.d[key] = hit[key]

\* The document of the build_json call, parsed again.
ParsedDocument == json_loads(called.result)

\* C16: the document written by build_json, parsed again, has as many
\* segments as the Track, tagged 1, 2, ... in order, and its i-th segment has
\* the points of the Track's i-th segment, as many and in the same order.
C16_JsonRoundTripKeepsTrack ==
    called.fn = "build_json" =>
        LET segs == ParsedDocument.d["segments"].items
        IN  /\ Len(segs) = Len(ExportedTrack)
            /\ \A i \in 1..Len(segs) :
                   /\ segs[i].d["segment"] = IntV(i)
                   /\ Len(segs[i].d["points"].items) = Len(ExportedTrack[i])
                   /\ \A j \in 1..Len(ExportedTrack[i]) :
                          SamePoint(segs[i].d["points"].items[j], ExportedTrack[i][j])

\* A Track of two segments, the first of two different hits, has been written
\* and parsed again: the document has two segments, the first of two points.
C16_Witness ==
    /\ called.fn = "build_json"
    /\ Len(ExportedTrack) = 2
    /\ Len(ExportedTrack[1]) = 2
    /\ ExportedTrack[1][1] # ExportedTrack[1][2]
    /\ Len(ParsedDocument.d["segments"].items) = 2
    /\ Len(ParsedDocument.d["segments"].items[1].d["points"].items) = 2

---------------------------------------------------------------------------
(* Properties of Worker.run: the meta of the JSON export *)

\* The query has ended with its JSON document written.
JsonWritten == pc = "done" /\ \E file \in written : file.format = "json"

\* The meta object of the JSON document, parsed again.
JsonMeta ==
    LET file == CHOOSE file \in written : file.format = "json"
    IN  json_loads(file_content(file)).d["meta"]

\* The fields of AircraftMeta that the reconciler fills.
ReconciledFields ==
    {"registration", "type", "type_name", "owner", "manufacturer", "model",
     "country", "photo_url", "flags", "callsigns", "description"}

\* The fields of AircraftMeta that Worker.run hands to the exporters.
ExportedFields ==
    {"registration", "type", "type_name", "owner", "manufacturer", "model",
     "description"}

\* C17 (as stated): every AircraftMeta field that is non-null when the
\* exporters start appears with its value in the document's meta object.
C17_JsonCarriesFullMeta ==
    JsonWritten =>
        LET document_meta == JsonMeta
        IN  \A field \in ReconciledFields :
                meta_obj[field] # None =>
                    /\ field \in DOMAIN document_meta.d
                    /\ document_meta.d[field] = meta_obj[field]

\* C17 (amended): the document's meta object has the key icao, with the
\* lower-case hex, and the keys registration, type, type_name, owner,
\* manufacturer, model and description, each with the field's value when the
\* exporters start, null included; it has no other key.
C17_JsonCarriesExportedMeta ==
    JsonWritten =>
        LET document_meta == JsonMeta
        IN  /\ DOMAIN document_meta.d = ExportedFields \cup {"icao"}
            /\ document_meta.d["icao"] = StrV(lower_hex(meta_obj.hex.s))
            /\ \A field \in ExportedFields : document_meta.d[field] = meta_obj[field]

\* A query has written its JSON document with a registration and an owner
\* known, and with a photo_url or a country known as well.
C17_Witness ==
    /\ JsonWritten
    /\ meta_obj.registration # None
    /\ meta_obj.owner # None
    /\ meta_obj.photo_url # None \/ meta_obj.country # None

---------------------------------------------------------------------------
(* Properties of the exporters: the CSV rows *)

\* The number of the data row of the j-th hit of the i-th segment.
RowOf(segs, i, j) == Len(Flatten(SubSeq(segs, 1, i - 1))) + j

\* The place of a column in a header.
ColumnOf(header, name) == CHOOSE c \in 1..Len(header) : header[c] = name

KinematicColumns == {"alt_ft", "gs_knots", "track_deg", "vrt_fpm", "flags"}

\* The hit has no value under the key.
Lacks(hit, key) == key \notin DOMAIN hit \/ hit[key] = None

\* The row is the row of the hit at point j of segment i: it names i and j
\* and has the hit's time and position.
IsRowOf(row, hit, i, j) ==
    /\ row[2] = ToString(i)
    /\ row[3] = ToString(j)
    /\ row[4] = (IF Lacks(hit, "timestamp") THEN "" ELSE str_text(hit["timestamp"]))
    /\ row[6] = str_text(py_float(hit["lat"]))
    /\ row[7] = str_text(py_float(hit["lon"]))

\* C18: build_csv writes the 17 base columns, one column per discovered key
\* and ac_data_json, then one data row per hit in segment and point order;
\* every row has as many cells as the header, and a kinematic field the hit
\* lacks, a key its ac_data lacks and absent ac_data are empty cells.
C18_CsvRowsAreRectangular ==
    called.fn = "build_csv" =>
        LET header == called.result.header
            rows == called.result.rows
            segs == ExportedTrack
        IN  /\ Len(base_header) = 17
            /\ SubSeq(header, 1, 17) = base_header
            /\ Len(header) = 17 + Cardinality(KeyUnion(segs)) + 1
            /\ header[Len(header)] = "ac_data_json"
            /\ Len(rows) = Len(Flatten(segs))
            /\ \A i \in 1..Len(segs) : \A j \in 1..Len(segs[i]) :
                   LET hit == segs[i][j]
                       row == rows[RowOf(segs, i, j)]
                   IN  /\ IsRowOf(row, hit, i, j)
                       /\ Len(row) = Len(header)
                       /\ \A name \in KinematicColumns :
                              Lacks(hit, name) => row[ColumnOf(header, name)] = ""
                       /\ \A c \in 18..(Len(header) - 1) :
                              header[c] \notin KeysOfHit(hit) => row[c] = ""
                       /\ KeysOfHit(hit) = {} => row[Len(header)] = ""

\* A Track of two segments has been written as CSV: its first hit has neither
\* kinematic fields nor ac_data, a later hit has ac_data, and the first row
\* has empty cells under alt_ft, under the later hit's key and at its end.
C18_Witness ==
    /\ called.fn = "build_csv"
    /\ Len(ExportedTrack) = 2
    /\ Lacks(ExportedTrack[1][1], "alt_ft")
    /\ KeysOfHit(ExportedTrack[1][1]) = {}
    /\ KeysOfHit(ExportedTrack[2][1]) # {}
    /\ Len(called.result.header) > 18
    /\ called.result.rows[1][8] = ""
    /\ called.result.rows[1][18] = ""
    /\ called.result.rows[1][Len(called.result.header)] = ""

---------------------------------------------------------------------------
(* Properties of Worker.run: the outcomes *)

Success == Terminal("finished_ok", "")

NoData == Terminal("finished_err", "No data")

Stopped == Terminal("finished_err", "Stopped")

\* Every day of the range has been asked for, and none has given a valid hit:
\* its trace was not found, or could not be parsed, or has no valid record.
NothingFound ==
    /\ pc \in {"days", "export", "done"}
    /\ Len(query.days) = query.ndays
    /\ AcceptedOfDays(query.days) = <<>>

\* C19: a query in which every day of the range yields no valid hit ends with
\* the NoData outcome, which is not the success outcome, and writes no export
\* file.
C19_NothingFoundEndsWithNoData ==
    NothingFound =>
        /\ pc # "export"
        /\ written = {}
        /\ pc = "days" => emitted = <<>> /\ ENABLED RunNoData
        /\ pc = "done" => emitted = <<NoData>>
        /\ NoData # Success

\* A query of two days has ended: one day had no trace, the other a payload
\* with records none of which is valid.
C19_Witness ==
    /\ pc = "done"
    /\ NothingFound
    /\ query.ndays = 2
    /\ \E d \in 1..2 : query.days[d].got # "blob"
    /\ \E d \in 1..2 : query.days[d].got = "blob" /\ Rows(query.days[d].blob) # <<>>
    /\ emitted = <<NoData>>

---------------------------------------------------------------------------
(* Properties of Worker.run: a stop request *)

\* The run has ended as stopped, and has written no export file.
EndedStopped == pc = "done" /\ emitted = <<Stopped>> /\ written = {}

\* No day is fetched once a stop has been requested.
NoDayFetchedAfterStop == [][stop_flag => query.days' = query.days]_vars

StopBeforeADay ==
    /\ stop_flag
    /\ \/ pc \in {"opensky", "planespotters", "acdb"}
       \/ pc = "days" /\ day <= query.ndays

---------------------------------------------------------------------------
(* Properties of Worker.run: the exporters called *)

ExportFormats == {"kml", "csv", "json"}

\* How many times the exporter of the format has been called.
TimesInvoked(format) == Cardinality({i \in DOMAIN invoked : invoked[i] = format})

\* The formats of the files written.
FormatsWritten == {file.format : file \in written}

\* The loop over the days has ended with a Track of at least one hit.
TrackHasHits ==
    /\ pc \in {"days", "export", "done"}
    /\ day > query.ndays
    /\ all_segments # <<>>

\* C21: when the Track has at least one hit, the run ends with every enabled
\* exporter called exactly once, whichever of them raised, with no disabled
\* exporter called, and with the success outcome; the files written are those
\* of enabled exporters, and no exporter is called before the Track is whole.
C21_ExportFailuresAreIsolated ==
    /\ pc # "done" => invoked = <<>> /\ written = {}
    /\ TrackHasHits /\ pc = "done" =>
        /\ \A format \in ExportFormats :
               TimesInvoked(format) = IF format \in ExportsEnabled(query) THEN 1 ELSE 0
        /\ FormatsWritten \subseteq ExportsEnabled(query)
        /\ emitted = <<Success>>

\* A query with the three formats enabled has ended: the KML and the CSV
\* exporters raised, and the JSON exporter, called after them, wrote its file.
C21_Witness ==
    /\ pc = "done"
    /\ TrackHasHits
    /\ ExportsEnabled(query) = ExportFormats
    /\ invoked = <<"kml", "csv", "json">>
    /\ FormatsWritten = {"json"}
    /\ emitted = <<Success>>

---------------------------------------------------------------------------
(* Properties of Worker.run: the terminal signal *)

\* The outcome of an unexpected exception: finished_err with its text.
Failed == Terminal("finished_err", "error")

\* What a fetch, a merge or an export changes: the answers of the
\* collaborators, the metadata, the Track, and the exporters called and the
\* files they wrote.
FetchedMergedExported == <<query, meta_obj, all_segments, invoked, written>>

\* C26: a run of Worker.run emits nothing until it returns, returns on every
\* path, and has then emitted exactly one signal, finished_ok or finished_err:
\* finished_ok after the exporters were called, finished_err("Stopped") after
\* a stop request, finished_err("No data") with an empty Track, finished_err
\* with the exception's text otherwise. Nothing is fetched, merged or
\* exported once the signal has been emitted.
C26_ExactlyOneTerminalSignal ==
    /\ [](pc # "done" => emitted = <<>>)
    /\ [](pc = "done" => emitted \in {<<Success>>, <<Stopped>>, <<NoData>>, <<Failed>>})
    /\ [](emitted = <<Success>> => invoked # <<>>)
    /\ [](emitted = <<Stopped>> => stop_flag)
    /\ [](emitted = <<NoData>> => all_segments = <<>>)
    /\ <>(pc = "done")
    /\ [][emitted # <<>> => UNCHANGED <<emitted, FetchedMergedExported>>]_vars

\* A run has ended on an unexpected exception after a day that gave hits:
\* the only signal is finished_err with the exception's text, and no exporter
\* has been called.
C26_Witness ==
    /\ pc = "done"
    /\ emitted = <<Failed>>
    /\ all_segments # <<>>
    /\ invoked = <<>>
    /\ Len(query.days) < query.ndays

---------------------------------------------------------------------------
(* Properties of Worker.run: a source of metadata that fails *)

\* The flight-data API failed: the request raised, its status is not 200 or
\* its body cannot be parsed, or it has no record of the aircraft.
OpenSkyFailed(answer) == ~answer.ok \/ answer.data = DictV(EmptyDict)

\* The photo API failed, or has no photo of the aircraft.
PlanespottersFailed(answer) ==
    ~answer.ok \/ dict_get(answer.data, "photos") \in {None, ListV(<<>>)}

\* The database could not be loaded, or none of its records is the
\* aircraft's.
AcdbFailed(db, hex) ==
    \/ db = DictV(EmptyDict)
    \/ /\ db.k = "list"
       /\ \A i \in DOMAIN db.items :
            \/ db.items[i].k # "dict"
            \/ acdb_icao_field(db.items[i]).k # "str"
            \/ lower_hex(acdb_icao_field(db.items[i]).s) # lower_hex(hex)

\* C23: a step of run() that consults a source which fails leaves every field
\* of the metadata as the earlier sources left it (the last of the three
\* steps also normalises the type, as it does when the source answers), and
\* run() goes on to the next source, and after the last one to the first day
\* of the loop; with the three sources failing, the loop starts with nothing
\* but the hex code.
C23_FailedSourceContributesNothing ==
    /\ [][/\ pc = "opensky" /\ pc' # pc /\ OpenSkyFailed(query'.opensky)
             => /\ meta_obj' = AircraftMeta(query.hex)
                /\ pc' = "planespotters"
          /\ pc = "planespotters" /\ pc' # pc /\ PlanespottersFailed(query'.planespotters)
             => /\ meta_obj' = meta_obj
                /\ pc' = "acdb"
          /\ pc = "acdb" /\ pc' # pc /\ AcdbFailed(query'.acdb, query.hex)
             => /\ meta_obj' = apply_type_mapping(meta_obj)
                /\ pc' = "days" /\ day' = 1 /\ day' <= query.ndays
                /\ emitted' = <<>>]_vars
    /\ [](/\ pc = "days" /\ query.days = <<>>
          /\ OpenSkyFailed(query.opensky)
          /\ PlanespottersFailed(query.planespotters)
          /\ AcdbFailed(query.acdb, query.hex)
          => meta_obj = AircraftMeta(query.hex))

\* The flight-data API did not answer, the photo API has no photo and the
\* database has no record of the aircraft: the loop over the days is entered
\* with the metadata holding the hex code alone.
C23_Witness ==
    /\ pc = "days"
    /\ day = 1
    /\ query.opensky = [ok |-> FALSE]
    /\ query.planespotters = [ok |-> TRUE, data |-> DictV([photos |-> ListV(<<>>)])]
    /\ query.acdb = ListV(<<DictV([icao |-> StrV("FFFFFF"), reg |-> StrV("N9")])>>)
    /\ meta_obj = AircraftMeta(query.hex)

---------------------------------------------------------------------------
(* load_adsbx_acdb *)

MaxLoads == 3

\* A file or a response body whose text is not JSON.
Garbled == [k |-> "garbled"]

\* A file or a response body whose text is the JSON document of v.
JsonText(v) == [k |-> "json", tokens |-> json_tokens(v)]

\* The JSON documents a file of the database or the download may hold: a
\* list of one record, an empty object, and null.
AcdbDocuments ==
    {JsonText(ListV(<<DictV([icao |-> StrV("abc123"), reg |-> StrV("N3")])>>)),
     JsonText(DictV(EmptyDict)),
     JsonText(None)}

\* What a file holds; a gzipped file is taken by the text it decompresses to.
AcdbContents == AcdbDocuments \cup {Garbled}

\* What happens around one call: whether os.makedirs raises, what the
\* download gives (NoFile when the request raises or its status is an error),
\* and whether writing a file raises.
AcdbEnvs ==
    [makedirs_raises : BOOLEAN,
     download : AcdbContents \cup {NoFile},
     write_raises : BOOLEAN]

\* What a call did: the value of _ACDB_CACHE and the files of its cache
\* directory after it, what it returned, the files it read and whether it
\* issued the request.
Loaded(cache, files, result, read, requested) ==
    [cache |-> cache, files |-> files, returned |-> result, read |-> read,
     requested |-> requested]

\* "continuing without DB": lines 754-756 and 770-773
without_db(files, read, requested) ==
    Loaded(DictV(EmptyDict), files, DictV(EmptyDict), read, requested)

\* load_adsbx_acdb(cache_root, log_cb), given _ACDB_CACHE and the files of
\* cache_root.
load_adsbx_acdb(cache, files, env) ==
    IF cache # None
    THEN Loaded(cache, files, cache, {}, FALSE)
    ELSE IF env.makedirs_raises
    THEN without_db(files, {}, FALSE)
    ELSE IF files.json \notin {NoFile, Garbled}
    THEN LET db == json_loads(files.json.tokens)
         IN  Loaded(db, files, db, {"json"}, FALSE)
    ELSE LET requested == files.gz = NoFile
             content == IF requested THEN env.download ELSE files.gz
             read == (IF files.json = NoFile THEN {} ELSE {"json"})
                     \cup (IF requested THEN {} ELSE {"gz"})
             saved == IF requested /\ content # NoFile /\ ~env.write_raises
                      THEN [files EXCEPT !.gz = content]
                      ELSE files
         IN  IF content = NoFile \/ (requested /\ env.write_raises)
             THEN without_db(files, read, requested)
             ELSE IF content = Garbled
             THEN without_db(saved, read, requested)
             ELSE LET db == json_loads(content.tokens)
                      cached == IF env.write_raises
                                THEN saved
                                ELSE [saved EXCEPT !.json = JsonText(db)]
                  IN  Loaded(db, cached, db, read, requested)

\* The process starts with _ACDB_CACHE unset; an earlier process may have
\* left files in the first cache directory.
InitAcdb ==
    /\ ACDB_CACHE = None
    /\ disk \in [CacheRoots -> [json : AcdbContents \cup {NoFile},
                                gz : AcdbContents \cup {NoFile}]]
    /\ disk["out2/acdb_cache"] = NoFiles
    /\ loads = <<>>
    /\ IdleParser
    /\ IdleHarness
    /\ IdleWorker
    /\ IdleWindow

\* A query calls load_adsbx_acdb with the cache directory of its output
\* folder (lines 1075-1076).
CallLoadAcdb ==
    /\ Len(loads) < MaxLoads
    /\ \E cache_root \in CacheRoots, env \in AcdbEnvs :
        LET res == load_adsbx_acdb(ACDB_CACHE, disk[cache_root], env)
        IN  /\ ACDB_CACHE' = res.cache
            /\ disk' = [disk EXCEPT ![cache_root] = res.files]
            /\ loads' = Append(loads, [cache_root |-> cache_root,
                                       returned |-> res.returned,
                                       read |-> res.read,
                                       requested |-> res.requested])
    /\ UNCHANGED <<parser_vars, harness_vars, worker_vars, call_vars, gui_vars>>

NextAcdb == CallLoadAcdb

SpecAcdb == InitAcdb /\ [][NextAcdb]_vars

---------------------------------------------------------------------------
(* Properties of load_adsbx_acdb *)

\* C24: once the first call of load_adsbx_acdb has returned, every later call
\* returns the value the first one returned, reads no file and issues no
\* request, whatever cache directory it is given.
C24_LoadedAtMostOnce ==
    \A i \in 2..Len(loads) :
        /\ loads[i].returned = loads[1].returned
        /\ loads[i].read = {}
        /\ ~loads[i].requested

---------------------------------------------------------------------------
(* MainWindow: run_query, the signals of the Worker and on_card_update *)

MaxRequests == 3

\* What the form holds when run_query is called: the text of the hex field,
\* the text of the output folder, and the JSON toggle (the other two are off).
Forms ==
    {[hex |-> " abc123 ", out_dir |-> "out1", do_json |-> TRUE],
     [hex |-> "abc12g", out_dir |-> "out1", do_json |-> TRUE],
     [hex |-> "", out_dir |-> "out1", do_json |-> TRUE],
     [hex |-> " abc123 ", out_dir |-> " ", do_json |-> TRUE],
     [hex |-> " abc123 ", out_dir |-> "out1", do_json |-> FALSE]}

RECURSIVE all_hex_digits(_)
\* not any(c not in "0123456789ABCDEF" for c in s)
all_hex_digits(s) ==
    \/ s = ""
    \/ /\ SubSeq(s, 1, 1) \in {"0", "1", "2", "3", "4", "5", "6", "7", "8", "9",
                               "A", "B", "C", "D", "E", "F"}
       /\ all_hex_digits(SubSeq(s, 2, Len(s)))

\* hex_edit.text().strip().upper()
hex_code_of(form) == upper(strip(form.hex))

\* The form passes the checks of lines 1469-1495.
form_accepted(form) ==
    /\ hex_code_of(form) # ""
    /\ all_hex_digits(hex_code_of(form))
    /\ strip(form.out_dir) # ""
    /\ form.do_json

\* The query of the Worker made from the form, for a range of one day.
GuiQuery(form) ==
    [Query("gui", 1, FALSE, FALSE, form.do_json) EXCEPT !.hex = lower_hex(hex_code_of(form))]

Busy == "[busy] A query is already running."

\* A card_update signal in the window's queue: it carries the AircraftMeta
\* object itself.
CardUpdate(m) == [sig |-> "card_update", meta |-> m]

\* The Worker's own AircraftMeta, as long as the window has that Worker.
Live == [k |-> "meta_obj"]

\* The signals of the window's Worker, in the order it emitted them: the
\* card updates, then the terminal signal.
Signals == [i \in 1..cards |-> CardUpdate(Live)] \o emitted

\* The signals of the window's Worker not yet delivered, as they stand when
\* the window lets go of that Worker: its AircraftMeta no longer changes.
Undelivered ==
    [i \in 1..(Len(Signals) - delivered) |->
        IF Signals[delivered + i].sig = "card_update"
        THEN CardUpdate(meta_obj)
        ELSE Signals[delivered + i]]

NoSignal == [sig |-> "none"]

\* The signal the window's thread handles next: the queue is in the order of
\* the emissions.
NextSignal ==
    IF backlog # <<>> THEN Head(backlog)
    ELSE IF delivered < Len(Signals) THEN Signals[delivered + 1]
    ELSE NoSignal

\* The signal at the head of the queue has been handled.
Dequeue ==
    IF backlog # <<>>
    THEN backlog' = Tail(backlog) /\ UNCHANGED delivered
    ELSE delivered' = delivered + 1 /\ UNCHANGED backlog

\* Mutant of RunQuery: a request made while the Worker runs is not rejected.
RunQueryWithoutBusyCheck ==
    /\ reading = 0
    /\ requests < MaxRequests
    /\ requests' = requests + 1
    /\ \E form \in Forms :
        IF ~form_accepted(form)
        THEN UNCHANGED <<worker, threads, gui_log, backlog, delivered, worker_vars>>
        ELSE /\ gui_log' = <<"[run]">>
             /\ worker' = worker + 1
             /\ threads' = threads \cup {worker + 1}
             /\ backlog' = backlog \o Undelivered
             /\ delivered' = 0
             /\ query' = GuiQuery(form)
             /\ pc' = "opensky"
             /\ meta_obj' = None
             /\ all_segments' = <<>>
             /\ day' = 0
             /\ stop_flag' = FALSE
             /\ emitted' = <<>>
             /\ written' = {}
             /\ invoked' = <<>>
             /\ cards' = 0
    /\ UNCHANGED <<reading, card, parser_vars, harness_vars, call_vars, acdb_vars>>

\* MainWindow.run_query, lines 1464-1512: rejected while the Worker runs or
\* when the form is not acceptable; else the log is cleared and a Worker is
\* made, connected and started.
RunQuery ==
    /\ reading = 0
    /\ requests < MaxRequests
    /\ requests' = requests + 1
    /\ \E form \in Forms :
        IF worker # 0 /\ worker \in threads
        THEN /\ gui_log' = Append(gui_log, Busy)
             /\ UNCHANGED <<worker, threads, backlog, delivered, worker_vars>>
        ELSE IF ~form_accepted(form)
        THEN UNCHANGED <<worker, threads, gui_log, backlog, delivered, worker_vars>>
        ELSE /\ gui_log' = <<"[run]">>
             /\ worker' = worker + 1
             /\ threads' = threads \cup {worker + 1}
             /\ backlog' = backlog \o Undelivered
             /\ delivered' = 0
             /\ query' = GuiQuery(form)
             /\ pc' = "opensky"
             /\ meta_obj' = None
             /\ all_segments' = <<>>
             /\ day' = 0
             /\ stop_flag' = FALSE
             /\ emitted' = <<>>
             /\ written' = {}
             /\ invoked' = <<>>
             /\ cards' = 0
    /\ UNCHANGED <<reading, card, parser_vars, harness_vars, call_vars, acdb_vars>>

\* run() has returned and the thread ends: isRunning() becomes false.
ThreadFinished ==
    /\ pc = "done"
    /\ worker \in threads
    /\ threads' = threads \ {worker}
    /\ UNCHANGED <<worker, requests, gui_log, backlog, delivered, reading, card,
                   worker_vars, parser_vars, harness_vars, call_vars, acdb_vars>>

\* The statements of on_card_update, by the field of the AircraftMeta each
\* reads: lines 1452-1460.
CardFields ==
    <<"type", "type_name", "hex", "registration", "owner", "flags", "callsigns",
      "photo_url">>

\* What the statement of on_card_update that reads the field puts on the
\* card.
label(field, m) ==
    CASE field = "hex" -> upper(m.hex.s)
      [] field = "callsigns" -> IF truthy(m.callsigns) THEN join(", ", m.callsigns.items) ELSE "-"
      [] field = "photo_url" -> m.photo_url
      [] OTHER -> py_or(m[field], StrV("-")).s

\* One statement of MainWindow.on_card_update(meta): the window's thread
\* reads a field of the object the signal carries. The Worker's thread runs
\* between two statements.
OnCardUpdate ==
    /\ NextSignal.sig = "card_update"
    /\ LET m == IF NextSignal.meta = Live THEN meta_obj ELSE NextSignal.meta
           field == CardFields[reading + 1]
       IN  card' = [card EXCEPT ![field] = label(field, m)]
    /\ IF reading + 1 < Len(CardFields)
       THEN reading' = reading + 1 /\ UNCHANGED <<backlog, delivered>>
       ELSE reading' = 0 /\ Dequeue
    /\ UNCHANGED <<worker, threads, requests, gui_log,
                   worker_vars, parser_vars, harness_vars, call_vars, acdb_vars>>

\* The slots of finished_ok and finished_err, lines 1506-1511.
OnFinished ==
    /\ reading = 0
    /\ NextSignal.sig \in {"finished_ok", "finished_err"}
    /\ gui_log' = Append(gui_log,
                         IF NextSignal.sig = "finished_ok"
                         THEN "[done] All days processed (consolidated)."
                         ELSE "[stopped] " \o NextSignal.msg)
    /\ Dequeue
    /\ UNCHANGED <<worker, threads, requests, reading, card,
                   worker_vars, parser_vars, harness_vars, call_vars, acdb_vars>>

\* The window has been shown: MainWindow.__init__, line 1408.
InitGui ==
    /\ IdleWindow
    /\ IdleWorker
    /\ IdleParser
    /\ IdleHarness
    /\ IdleAcdb

\* The window and its Worker; no stop is requested.
NextGui ==
    \/ RunQuery
    \/ RunOpenSky
    \/ RunPlanespotters
    \/ RunAcdb
    \/ RunDaySkipped
    \/ RunDayParsed
    \/ RunDayFatal
    \/ RunNoData
    \/ RunEnrich
    \/ RunExports
    \/ ThreadFinished
    \/ OnCardUpdate
    \/ OnFinished

SpecGui == InitGui /\ [][NextGui]_vars

---------------------------------------------------------------------------
(* Properties of MainWindow.run_query *)

\* A Worker's run() is in progress.
RunInProgress == pc \notin {"idle", "done"}

\* C22: at most one Worker runs at any time, and it is the window's; a run in
\* progress is that of a running Worker; and a run_query request made while
\* the Worker runs only appends the busy line to the log: no Worker is made
\* or started, and the run in progress is left as it is.
C22_OneQueryAtATime ==
    /\ [](threads \subseteq {worker} /\ Cardinality(threads) <= 1)
    /\ [](RunInProgress => worker \in threads)
    /\ [][requests' # requests /\ worker \in threads
            => /\ gui_log' = Append(gui_log, Busy)
               /\ worker' = worker
               /\ threads' = threads
               /\ UNCHANGED worker_vars]_vars

\* A request was accepted and two more were made while its Worker ran, the
\* second after run() had emitted its signal and before the thread ended:
\* both were rejected, and the Worker is still the first.
C22_Witness ==
    /\ worker = 1
    /\ threads = {1}
    /\ pc = "done"
    /\ requests = 3
    /\ gui_log = <<"[run]", Busy, Busy>>

---------------------------------------------------------------------------
(* Properties of MainWindow.on_card_update *)

\* The Worker's thread may still assign a field of its AircraftMeta: a day of
\* the range is still to be merged, or the hits are still to be.
WorkerMayMutate ==
    \/ pc \in {"opensky", "planespotters", "acdb"}
    \/ pc = "days" /\ (day <= query.ndays \/ all_segments # <<>>)

\* A statement of on_card_update reads a field of the AircraftMeta of the
\* window's Worker.
ReadsLiveMeta == reading' # reading /\ NextSignal.sig = "card_update" /\ NextSignal.meta = Live

\* C25: the window's thread never reads a field of an AircraftMeta that the
\* Worker's thread may still assign.
C25_GuiNeverReadsMutableMeta ==
    [][ReadsLiveMeta => ~WorkerMayMutate]_vars

===========================================================================
